---- MODULE Spec2Model ----
(***************************************************************************)
(* The access-control engine of src/lib/acl.ts (class Acl, the current     *)
(* copy at lines 896-1626) over the bucket store of src/lib/backend.ts.    *)
(*                                                                         *)
(* An Acl is constructed over a backend.  Two backends of the repository   *)
(* are modelled: MongoDBBackend (src/lib/backend.ts) and the memory        *)
(* backend that the test runner src/unnamed/part_000 constructs with       *)
(* `new Acl.memoryBackend()`, whose code is not part of src/ and is        *)
(* modelled from section 4.1 of the specification.  The backend "memory"   *)
(* offers the optional unions method, the backend "plain" is the same      *)
(* store without it, so that both strategies of allowedPermissions run     *)
(* over stores that hold data.                                             *)
(*                                                                         *)
(* Arrays are modelled as sets: every array the engine builds is consumed  *)
(* as a set (lodash union / intersection, includes, indexOf, length == 0). *)
(* A scalar argument and the one-element array behave alike (makeArray),   *)
(* so an argument is the set of its elements; an omitted optional argument *)
(* is modelled by a flag.                                                  *)
(***************************************************************************)
EXTENDS Naturals, Sequences, FiniteSets, TLC

VARIABLES
  backend,  \* the backend the Acl was constructed with
  store,    \* the contents of the backend: bucket -> key -> set of values
  nops,     \* number of mutating calls made
  last,     \* the last mutating call: its name, arguments and what it read
  result,   \* the value a query resolved with, until the caller takes it
  pending   \* the call in flight between two of its store round trips

vars == <<backend, store, nops, last, result, pending>>

(***************************************************************************)
(* Universe of names and the bounds of the model.                          *)
(***************************************************************************)
Users == {"u1", "u2"}
Roles == {"a", "b", "c"}
Resources == {"R", "S"}
Permissions == {"p", "q", "*"}

\* the JavaScript value undefined (an omitted argument)
UNDEF == "<undefined>"

\* number of mutating calls in one run
MaxOps == 2

\* argument menus of the mutating calls
RoleArgs == {{"a"}, {"c"}, {"a", "b"}}
ParentArgs == {{"a"}, {"b"}}
RemoveParentArgs == {{"b"}}
ResourceArgs == {{"R"}, {"R", "S"}}
PermissionArgs == {{"p", "q"}, {"*"}, {}}
RemovePermissionArgs == {{"p"}}

\* argument menus of the queries
QueryUsers == {"u1"}
QueryPermissionArgs == {{"p"}, {"p", "q"}}
QueryRoleArgs == {{"c"}}
RacePermissionArgs == {{"p"}}

Backends == {"mongodb", "memory", "plain"}

(***************************************************************************)
(* Names of the buckets.                                                   *)
(***************************************************************************)
buckets ==
  [meta |-> "meta", parents |-> "parents", permissions |-> "permissions",
   resources |-> "resources", roles |-> "roles", users |-> "users"]

allowsBucket(role) == "allows_" \o role

keyFromAllowsBucket(str) ==
  IF \E r \in Resources : str = allowsBucket(r)
  THEN CHOOSE r \in Resources : str = allowsBucket(r)
  ELSE str

BucketNames ==
  {buckets.meta, buckets.parents, buckets.resources, buckets.roles, buckets.users}
    \cup {allowsBucket(r) : r \in Resources}

\* user ids given as numbers, and their string forms
NumericIds == {0, 3}

String(n) == IF n = 0 THEN "0" ELSE "3"

KeyNames ==
  Users \cup Roles \cup {"roles", "users"} \cup {String(n) : n \in NumericIds}

EmptyStore == [b \in BucketNames |-> [k \in KeyNames |-> {}]]

(***************************************************************************)
(* Helpers.                                                                *)
(***************************************************************************)
RECURSIVE SetToSeq(_)
SetToSeq(S) ==
  IF S = {} THEN <<>>
  ELSE LET x == CHOOSE y \in S : TRUE IN <<x>> \o SetToSeq(S \ {x})

RECURSIVE Flatten(_)
Flatten(seqs) ==
  IF seqs = <<>> THEN <<>> ELSE Head(seqs) \o Flatten(Tail(seqs))

\* the requests a method makes to the backend between begin() and end()
AddCall(bucket, key, values) ==
  [op |-> "add", bucket |-> bucket, keys |-> {key}, values |-> values]
RemoveCall(bucket, key, values) ==
  [op |-> "remove", bucket |-> bucket, keys |-> {key}, values |-> values]
DelCall(bucket, keys) ==
  [op |-> "del", bucket |-> bucket, keys |-> keys, values |-> {}]

(***************************************************************************)
(* MongoDBBackend.                                                         *)
(***************************************************************************)
\* encodeURIComponent leaves letters, digits, '_' and '*' as they are, so on
\* the names of this model encodeText changes only undefined, to its string.
encodeText(text) == IF text = UNDEF THEN "undefined" ELSE text

decodeText(text) == text

MongoDBBackend_begin == <<>>

\* add pushes two functions: the $set update and the index creation
MongoDBBackend_add(transaction, c) ==
  transaction \o
    << [fn |-> "updateMany_set", bucket |-> c.bucket,
        key |-> {encodeText(k) : k \in c.keys},
        doc |-> {encodeText(v) : v \in c.values}],
       [fn |-> "createIndex", bucket |-> c.bucket, key |-> {}, doc |-> {}] >>

MongoDBBackend_del(transaction, c) ==
  transaction \o
    << [fn |-> "deleteMany", bucket |-> c.bucket,
        key |-> {encodeText(k) : k \in c.keys}, doc |-> {}] >>

MongoDBBackend_remove(transaction, c) ==
  transaction \o
    << [fn |-> "updateMany_unset", bucket |-> c.bucket,
        key |-> {encodeText(k) : k \in c.keys},
        doc |-> {encodeText(v) : v \in c.values}] >>

\* end awaits Promise.all(transaction).  The transaction holds functions, not
\* promises: Promise.all resolves with them as values and calls none of them,
\* so no queued update reaches the database.
MongoDBBackend_end(s, transaction) == s

\* findOne by the encoded key; the document's field names are the values
MongoDBBackend_get(s, bucket, key) ==
  LET k == encodeText(key)
      doc == IF bucket \in DOMAIN s /\ k \in DOMAIN s[bucket]
             THEN s[bucket][k] ELSE {}
  IN {decodeText(f) : f \in doc} \ {"key", "_id"}

MongoDBBackend_union(s, bucket, keys) ==
  LET ks == {encodeText(k) : k \in keys}
      docs == IF bucket \in DOMAIN s
              THEN {s[bucket][k] : k \in ks \cap DOMAIN s[bucket]} ELSE {}
  IN {decodeText(f) : f \in UNION docs} \ {"key", "_id"}

(***************************************************************************)
(* The memory backend (specification, section 4.1).                        *)
(***************************************************************************)
MemoryBackend_begin == <<>>

MemoryBackend_enqueue(transaction, c) == Append(transaction, c)

MemoryBackend_apply(s, c) ==
  IF c.bucket \notin DOMAIN s THEN s
  ELSE [s EXCEPT ![c.bucket] =
         [k \in DOMAIN s[c.bucket] |->
            IF k \notin c.keys THEN s[c.bucket][k]
            ELSE IF c.op = "add" THEN s[c.bucket][k] \cup c.values
            ELSE IF c.op = "remove" THEN s[c.bucket][k] \ c.values
            ELSE {}]]

RECURSIVE MemoryBackend_end(_, _)
MemoryBackend_end(s, transaction) ==
  IF transaction = <<>> THEN s
  ELSE MemoryBackend_end(MemoryBackend_apply(s, Head(transaction)), Tail(transaction))

MemoryBackend_get(s, bucket, key) ==
  IF bucket \in DOMAIN s /\ key \in DOMAIN s[bucket] THEN s[bucket][key] ELSE {}

MemoryBackend_union(s, bucket, keys) ==
  UNION {MemoryBackend_get(s, bucket, k) : k \in keys}

MemoryBackend_unions(s, bucketSet, keys) ==
  [b \in bucketSet |-> MemoryBackend_union(s, b, keys)]

(***************************************************************************)
(* The Backend interface as the engine uses it, b being the backend the    *)
(* Acl was constructed with.                                               *)
(***************************************************************************)
RECURSIVE Enqueue(_, _, _)
Enqueue(b, transaction, calls) ==
  IF calls = <<>> THEN transaction
  ELSE LET c == Head(calls)
           t == IF b = "mongodb"
                THEN CASE c.op = "add" -> MongoDBBackend_add(transaction, c)
                       [] c.op = "remove" -> MongoDBBackend_remove(transaction, c)
                       [] OTHER -> MongoDBBackend_del(transaction, c)
                ELSE MemoryBackend_enqueue(transaction, c)
       IN Enqueue(b, t, Tail(calls))

backend_begin(b) == IF b = "mongodb" THEN MongoDBBackend_begin ELSE MemoryBackend_begin

backend_end(b, s, transaction) ==
  IF b = "mongodb" THEN MongoDBBackend_end(s, transaction)
  ELSE MemoryBackend_end(s, transaction)

backend_get(b, s, bucket, key) ==
  IF b = "mongodb" THEN MongoDBBackend_get(s, bucket, key)
  ELSE MemoryBackend_get(s, bucket, key)

backend_union(b, s, bucket, keys) ==
  IF b = "mongodb" THEN MongoDBBackend_union(s, bucket, keys)
  ELSE MemoryBackend_union(s, bucket, keys)

\* MongoDBBackend has no unions method
backend_hasUnions(b) == b = "memory"

\* whether end() applies a batch with no call of another caller in between.
\* The memory backend runs the queued functions in one synchronous loop; the
\* Bucket Store contract gives no isolation, and the store without unions
\* stands for a store that applies the operations one round trip at a time.
backend_isolates(b) == b = "memory"

\* one batch: begin(), the calls, end()
Batch(b, s, calls) == backend_end(b, s, Enqueue(b, backend_begin(b), calls))

(***************************************************************************)
(* Acl: the mutating methods.  Each operator is the store after the call   *)
(* on store s through backend b.                                           *)
(***************************************************************************)
\* addUserRoles that writes users[userId] and not the inverse roles[role]
addUserRoles_noInverse(b, s, userId, roles) ==
  Batch(b, s,
    << AddCall(buckets.meta, "users", {userId}),
       AddCall(buckets.users, userId, roles) >>)

addUserRoles(b, s, userId, roles) ==
  LET rs == SetToSeq(roles)
  IN Batch(b, s,
       << AddCall(buckets.meta, "users", {userId}),
          AddCall(buckets.users, userId, roles) >>
       \o [i \in 1..Len(rs) |-> AddCall(buckets.roles, rs[i], {userId})])

\* removeUserRoles that takes the roles from users[userId] only
removeUserRoles_oneWay(b, s, userId, roles) ==
  Batch(b, s, << RemoveCall(buckets.users, userId, roles) >>)

removeUserRoles(b, s, userId, roles) ==
  LET rs == SetToSeq(roles)
  IN Batch(b, s,
       << RemoveCall(buckets.users, userId, roles) >>
       \o [i \in 1..Len(rs) |-> RemoveCall(buckets.roles, rs[i], {userId})])

addRoleParents(b, s, role, parents) ==
  Batch(b, s,
    << AddCall(buckets.meta, "roles", {role}),
       AddCall(buckets.parents, role, parents) >>)

\* removeRoleParents that deletes the whole parents key whatever it is given
removeRoleParents_allParents(b, s, role, given, parents) ==
  Batch(b, s, << DelCall(buckets.parents, {role}) >>)

\* given: whether the parents argument was passed
removeRoleParents(b, s, role, given, parents) ==
  Batch(b, s,
    IF given THEN << RemoveCall(buckets.parents, role, parents) >>
    ELSE << DelCall(buckets.parents, {role}) >>)

\* removeRole that drops the whole allows bucket of each resource of the role
removeRole_batch_wholeBucket(b, s, role, resources) ==
  LET rs == SetToSeq(resources)
  IN Batch(b, s,
       [i \in 1..Len(rs) |-> DelCall(allowsBucket(rs[i]), KeyNames)]
       \o << DelCall(buckets.resources, {role}),
             DelCall(buckets.parents, {role}),
             DelCall(buckets.roles, {role}),
             RemoveCall(buckets.meta, "roles", {role}) >>)

\* removeRole that leaves the grants of the role in the allows buckets
removeRole_batch_keepGrants(b, s, role, resources) ==
  Batch(b, s,
    << DelCall(buckets.resources, {role}),
       DelCall(buckets.parents, {role}),
       DelCall(buckets.roles, {role}),
       RemoveCall(buckets.meta, "roles", {role}) >>)

\* removeRole that also takes the role away from its users
removeRole_batch_purgeUsers(b, s, role, resources) ==
  LET rs == SetToSeq(resources)
      us == SetToSeq(backend_get(b, s, buckets.roles, role))
  IN Batch(b, s,
       [i \in 1..Len(rs) |-> DelCall(allowsBucket(rs[i]), {role})]
       \o [i \in 1..Len(us) |-> RemoveCall(buckets.users, us[i], {role})]
       \o << DelCall(buckets.resources, {role}),
             DelCall(buckets.parents, {role}),
             DelCall(buckets.roles, {role}),
             RemoveCall(buckets.meta, "roles", {role}) >>)

\* the batch of removeRole, resources being what it read from resources[role]
removeRole_batch(b, s, role, resources) ==
  LET rs == SetToSeq(resources)
  IN Batch(b, s,
       [i \in 1..Len(rs) |-> DelCall(allowsBucket(rs[i]), {role})]
       \o << DelCall(buckets.resources, {role}),
             DelCall(buckets.parents, {role}),
             DelCall(buckets.roles, {role}),
             RemoveCall(buckets.meta, "roles", {role}) >>)

removeRole(b, s, role) ==
  removeRole_batch(b, s, role, backend_get(b, s, buckets.resources, role))

\* removeResource that leaves the resource in the resources index of the roles
removeResource_batch_keepIndex(b, s, resource, roles) ==
  Batch(b, s, << DelCall(allowsBucket(resource), roles) >>)

\* the batch of removeResource, roles being what it read from meta["roles"]
removeResource_batch(b, s, resource, roles) ==
  LET rs == SetToSeq(roles)
  IN Batch(b, s,
       << DelCall(allowsBucket(resource), roles) >>
       \o [i \in 1..Len(rs) |-> RemoveCall(buckets.resources, rs[i], {resource})])

removeResource(b, s, resource) ==
  removeResource_batch(b, s, resource, backend_get(b, s, buckets.meta, "roles"))

\* allow that replaces the permissions of the role instead of adding to them
allow_replace(b, s, roles, resources, permissions) ==
  LET rs == SetToSeq(roles)
      res == SetToSeq(resources)
  IN Batch(b, s,
       << AddCall(buckets.meta, "roles", roles) >>
       \o Flatten([i \in 1..Len(res) |->
            << DelCall(allowsBucket(res[i]), roles) >>
            \o [j \in 1..Len(rs) |-> AddCall(allowsBucket(res[i]), rs[j], permissions)]])
       \o [j \in 1..Len(rs) |-> AddCall(buckets.resources, rs[j], resources)])

\* allow that pairs the i-th role with the i-th resource instead of every role
\* with every resource
allow_pairwise(b, s, roles, resources, permissions) ==
  LET rs == SetToSeq(roles)
      res == SetToSeq(resources)
      n == IF Len(rs) < Len(res) THEN Len(rs) ELSE Len(res)
  IN Batch(b, s,
       << AddCall(buckets.meta, "roles", roles) >>
       \o [i \in 1..n |-> AddCall(allowsBucket(res[i]), rs[i], permissions)]
       \o [j \in 1..Len(rs) |-> AddCall(buckets.resources, rs[j], resources)])

\* the three-argument form of allow
\* allow that queues the index of the roles before their permissions
allow_batch_indexFirst(roles, resources, permissions) ==
  LET rs == SetToSeq(roles)
      res == SetToSeq(resources)
  IN << AddCall(buckets.meta, "roles", roles) >>
     \o [j \in 1..Len(rs) |-> AddCall(buckets.resources, rs[j], resources)]
     \o Flatten([i \in 1..Len(res) |->
          [j \in 1..Len(rs) |-> AddCall(allowsBucket(res[i]), rs[j], permissions)]])

\* the calls allow queues between begin() and end(), in their order
allow_batch(roles, resources, permissions) ==
  LET rs == SetToSeq(roles)
      res == SetToSeq(resources)
  IN << AddCall(buckets.meta, "roles", roles) >>
     \o Flatten([i \in 1..Len(res) |->
          [j \in 1..Len(rs) |-> AddCall(allowsBucket(res[i]), rs[j], permissions)]])
     \o [j \in 1..Len(rs) |-> AddCall(buckets.resources, rs[j], resources)]

allow(b, s, roles, resources, permissions) ==
  Batch(b, s, allow_batch(roles, resources, permissions))

\* removePermissions that drops every permission whatever list it is given
removePermissions_first_del(b, s, role, resources, given, permissions) ==
  LET res == SetToSeq(resources)
  IN Batch(b, s,
       Flatten([i \in 1..Len(res) |->
         << DelCall(allowsBucket(res[i]), {role}),
            RemoveCall(buckets.resources, role, {res[i]}) >>]))

\* first batch of removePermissions; given: whether permissions is truthy.
\* The callbacks of forEach are not awaited: each makes its first backend call
\* at once and its second, the removal from resources[role] that follows the
\* awaited del, only after end(transaction) has been called.  The second batch
\* removes that entry.
removePermissions_first(b, s, role, resources, given, permissions) ==
  LET res == SetToSeq(resources)
  IN Batch(b, s,
       [i \in 1..Len(res) |->
         IF given
         THEN RemoveCall(allowsBucket(res[i]), role, permissions)
         ELSE DelCall(allowsBucket(res[i]), {role})])

\* reads of the second transaction that take every resource for empty
removePermissions_second_read_all(b, s, role, resources) == resources

\* second transaction of removePermissions, its reads: the resources on which
\* the role is found without rights
removePermissions_second_read(b, s, role, resources) ==
  {r \in resources : backend_get(b, s, allowsBucket(r), role) = {}}

\* second transaction of removePermissions, its batch: drop from the index
\* the resources the reads found empty
removePermissions_second_end(b, s, role, empty) ==
  LET es == SetToSeq(empty)
  IN Batch(b, s,
       [i \in 1..Len(es) |-> RemoveCall(buckets.resources, role, {es[i]})])

\* second batch of removePermissions: drop the resources left without rights
removePermissions_second(b, s, role, resources) ==
  removePermissions_second_end(b, s, role,
    removePermissions_second_read(b, s, role, resources))

removePermissions(b, s, role, resources, given, permissions) ==
  removePermissions_second(b,
    removePermissions_first(b, s, role, resources, given, permissions),
    role, resources)

\* removeAllow wraps permissions with makeArray: omitted, it becomes [undefined]
removeAllow(b, s, role, resources, given, permissions) ==
  removePermissions(b, s, role, resources, TRUE,
    IF given THEN permissions ELSE {UNDEF})

(***************************************************************************)
(* Acl: the queries.  The hierarchy traversals recurse once per level of   *)
(* the parents graph.  A traversal over an acyclic graph of n roles makes  *)
(* at most n nested calls; one that would make more has met a cycle and    *)
(* never returns.  Each traversal is a record: done (the call returns) and *)
(* val (what it returns).                                                  *)
(***************************************************************************)
HierarchyFuel == Cardinality(Roles)

NotReturning == [done |-> FALSE, val |-> {}]

userRoles(b, s, userId) == backend_get(b, s, buckets.users, userId)

roleUsers(b, s, roleName) == backend_get(b, s, buckets.roles, roleName)

hasRole(b, s, userId, rolename) == rolename \in userRoles(b, s, userId)

_rolesParents(b, s, roles) == backend_union(b, s, buckets.parents, roles)

\* _allRoles that does not climb again from a role it is climbing from
RECURSIVE _allRoles_skipsSelf(_, _, _, _)
_allRoles_skipsSelf(b, s, roleNames, fuel) ==
  IF fuel = 0 THEN NotReturning
  ELSE LET parents == _rolesParents(b, s, roleNames) \ roleNames
       IN IF parents # {}
          THEN LET parentRoles == _allRoles_skipsSelf(b, s, parents, fuel - 1)
               IN [done |-> parentRoles.done, val |-> roleNames \cup parentRoles.val]
          ELSE [done |-> TRUE, val |-> roleNames]

\* _allRoles that climbs from the roles it has gathered so far, the given ones
\* included, instead of climbing from their parents alone
RECURSIVE _allRoles_accumulating(_, _, _, _)
_allRoles_accumulating(b, s, roleNames, fuel) ==
  IF fuel = 0 THEN NotReturning
  ELSE LET parents == _rolesParents(b, s, roleNames)
       IN IF parents # {}
          THEN _allRoles_accumulating(b, s, roleNames \cup parents, fuel - 1)
          ELSE [done |-> TRUE, val |-> roleNames]

RECURSIVE _allRoles(_, _, _, _)
_allRoles(b, s, roleNames, fuel) ==
  IF fuel = 0 THEN NotReturning
  ELSE LET parents == _rolesParents(b, s, roleNames)
       IN IF parents # {}
          THEN LET parentRoles == _allRoles(b, s, parents, fuel - 1)
               IN [done |-> parentRoles.done, val |-> roleNames \cup parentRoles.val]
          ELSE [done |-> TRUE, val |-> roleNames]

_allUserRoles(b, s, userId) ==
  LET roles == userRoles(b, s, userId)
  IN IF roles # {} THEN _allRoles(b, s, roles, HierarchyFuel)
     ELSE [done |-> TRUE, val |-> {}]

_rolesResources(b, s, roles) ==
  LET allRoles == _allRoles(b, s, roles, HierarchyFuel)
  IN [done |-> allRoles.done,
      val |-> UNION {backend_get(b, s, buckets.resources, role) : role \in allRoles.val}]

RECURSIVE _resourcePermissions(_, _, _, _, _)
_resourcePermissions(b, s, roles, resource, fuel) ==
  IF roles = {} THEN [done |-> TRUE, val |-> {}]
  ELSE IF fuel = 0 THEN NotReturning
  ELSE LET resourcePermissions == backend_union(b, s, allowsBucket(resource), roles)
           parents == _rolesParents(b, s, roles)
       IN IF parents # {}
          THEN LET morePermissions ==
                     _resourcePermissions(b, s, parents, resource, fuel - 1)
               IN [done |-> morePermissions.done,
                   val |-> resourcePermissions \cup morePermissions.val]
          ELSE [done |-> TRUE, val |-> resourcePermissions]

\* _checkPermissions taking one of the asked permissions for all of them
RECURSIVE _checkPermissions_anyOf(_, _, _, _, _, _)
_checkPermissions_anyOf(b, s, roles, resource, permissions, fuel) ==
  IF fuel = 0 THEN [done |-> FALSE, val |-> FALSE]
  ELSE LET resourcePermissions == backend_union(b, s, allowsBucket(resource), roles)
       IN IF "*" \in resourcePermissions THEN [done |-> TRUE, val |-> TRUE]
          ELSE IF permissions = {} \/ permissions \cap resourcePermissions # {}
               THEN [done |-> TRUE, val |-> TRUE]
               ELSE LET parents == backend_union(b, s, buckets.parents, roles)
                    IN IF parents # {}
                       THEN _checkPermissions_anyOf(b, s, parents, resource,
                                                    permissions, fuel - 1)
                       ELSE [done |-> TRUE, val |-> FALSE]

\* _checkPermissions that asks the parents of the given roles and no further
_checkPermissions_twoLevels(b, s, roles, resource, permissions, fuel) ==
  LET own == backend_union(b, s, allowsBucket(resource), roles)
      parents == backend_union(b, s, buckets.parents, roles)
      above == backend_union(b, s, allowsBucket(resource), parents)
      granted == own \cup above
  IN [done |-> TRUE, val |-> "*" \in granted \/ permissions \subseteq granted]

\* _checkPermissions that knows no wildcard
RECURSIVE _checkPermissions_noWildcard(_, _, _, _, _, _)
_checkPermissions_noWildcard(b, s, roles, resource, permissions, fuel) ==
  IF fuel = 0 THEN [done |-> FALSE, val |-> FALSE]
  ELSE LET resourcePermissions == backend_union(b, s, allowsBucket(resource), roles)
           remaining == {p \in permissions : p \notin resourcePermissions}
       IN IF remaining = {} THEN [done |-> TRUE, val |-> TRUE]
          ELSE LET parents == backend_union(b, s, buckets.parents, roles)
               IN IF parents # {}
                  THEN _checkPermissions_noWildcard(b, s, parents, resource,
                                                    remaining, fuel - 1)
                  ELSE [done |-> TRUE, val |-> FALSE]

\* _checkPermissions that gives up and answers false at a depth of recursion
RECURSIVE _checkPermissions_depthGuard(_, _, _, _, _, _)
_checkPermissions_depthGuard(b, s, roles, resource, permissions, fuel) ==
  IF fuel = 0 THEN [done |-> TRUE, val |-> FALSE]
  ELSE LET resourcePermissions == backend_union(b, s, allowsBucket(resource), roles)
       IN IF "*" \in resourcePermissions THEN [done |-> TRUE, val |-> TRUE]
          ELSE LET remaining == {p \in permissions : p \notin resourcePermissions}
               IN IF remaining = {} THEN [done |-> TRUE, val |-> TRUE]
                  ELSE LET parents == backend_union(b, s, buckets.parents, roles)
                       IN IF parents # {}
                          THEN _checkPermissions_depthGuard(b, s, parents, resource,
                                                            remaining, fuel - 1)
                          ELSE [done |-> TRUE, val |-> FALSE]

\* _checkPermissions that is not satisfied by an empty list of permissions
RECURSIVE _checkPermissions_emptyDenied(_, _, _, _, _, _)
_checkPermissions_emptyDenied(b, s, roles, resource, permissions, fuel) ==
  IF fuel = 0 THEN [done |-> FALSE, val |-> FALSE]
  ELSE LET resourcePermissions == backend_union(b, s, allowsBucket(resource), roles)
       IN IF "*" \in resourcePermissions THEN [done |-> TRUE, val |-> TRUE]
          ELSE LET remaining == {p \in permissions : p \notin resourcePermissions}
               IN IF remaining = {} /\ permissions # {} THEN [done |-> TRUE, val |-> TRUE]
                  ELSE LET parents == backend_union(b, s, buckets.parents, roles)
                       IN IF parents # {}
                          THEN _checkPermissions_emptyDenied(b, s, parents, resource,
                                                             remaining, fuel - 1)
                          ELSE [done |-> TRUE, val |-> FALSE]

RECURSIVE _checkPermissions(_, _, _, _, _, _)
_checkPermissions(b, s, roles, resource, permissions, fuel) ==
  IF fuel = 0 THEN [done |-> FALSE, val |-> FALSE]
  ELSE LET resourcePermissions == backend_union(b, s, allowsBucket(resource), roles)
       IN IF "*" \in resourcePermissions THEN [done |-> TRUE, val |-> TRUE]
          ELSE LET remaining == {p \in permissions : p \notin resourcePermissions}
               IN IF remaining = {} THEN [done |-> TRUE, val |-> TRUE]
                  ELSE LET parents == backend_union(b, s, buckets.parents, roles)
                       IN IF parents # {}
                          THEN _checkPermissions(b, s, parents, resource,
                                                 remaining, fuel - 1)
                          ELSE [done |-> TRUE, val |-> FALSE]

\* areAnyRolesAllowed that asks each role by itself, with its own ancestors
areAnyRolesAllowed_singleRole(b, s, roles, resource, permissions) ==
  LET ans == [r \in roles |->
                _checkPermissions(b, s, {r}, resource, permissions, HierarchyFuel)]
  IN [done |-> \A r \in roles : ans[r].done,
      val |-> \E r \in roles : ans[r].val]

areAnyRolesAllowed(b, s, roles, resource, permissions) ==
  IF roles = {} THEN [done |-> TRUE, val |-> FALSE]
  ELSE _checkPermissions(b, s, roles, resource, permissions, HierarchyFuel)

\* isAllowed that looks the resource up in the index of the user's roles first
isAllowed_indexed(b, s, userId, resource, permissions) ==
  LET roles == backend_get(b, s, buckets.users, userId)
  IN IF roles # {} /\ resource \in backend_union(b, s, buckets.resources, roles)
     THEN areAnyRolesAllowed(b, s, roles, resource, permissions)
     ELSE [done |-> TRUE, val |-> FALSE]

isAllowed(b, s, userId, resource, permissions) ==
  LET roles == backend_get(b, s, buckets.users, userId)
  IN IF roles # {} THEN areAnyRolesAllowed(b, s, roles, resource, permissions)
     ELSE [done |-> TRUE, val |-> FALSE]

\* a user id that JavaScript takes for false
falsy(userId) == userId = ""

EmptyMap == [r \in {} |-> {}]

\* optimizedAllowedPermissions that asks for the user's direct roles only
optimizedAllowedPermissions_directRoles(b, s, userId, resources) ==
  LET roles == userRoles(b, s, userId)
      bucketSet == {allowsBucket(r) : r \in resources}
      response == MemoryBackend_unions(s, bucketSet, roles)
  IN [done |-> TRUE,
      val |-> [r \in {keyFromAllowsBucket(k) : k \in DOMAIN response} |->
                 response[allowsBucket(r)]]]

optimizedAllowedPermissions(b, s, userId, resources) ==
  IF falsy(userId) THEN [done |-> TRUE, val |-> EmptyMap]
  ELSE LET roles == _allUserRoles(b, s, userId)
           bucketSet == {allowsBucket(r) : r \in resources}
           response == MemoryBackend_unions(s, bucketSet, roles.val)
       IN [done |-> roles.done,
           val |-> [r \in {keyFromAllowsBucket(k) : k \in DOMAIN response} |->
                      response[allowsBucket(r)]]]

\* allowedPermissions that leaves out the resources without a grant
allowedPermissions_grantedOnly(b, s, userId, resources) ==
  LET roles == userRoles(b, s, userId)
      perms == [r \in resources |->
                  _resourcePermissions(b, s, roles, r, HierarchyFuel)]
      granted == {r \in resources : perms[r].val # {}}
  IN [done |-> \A r \in resources : perms[r].done,
      val |-> [r \in granted |-> perms[r].val]]

allowedPermissions(b, s, userId, resources) ==
  IF falsy(userId) THEN [done |-> TRUE, val |-> EmptyMap]
  ELSE IF backend_hasUnions(b) THEN optimizedAllowedPermissions(b, s, userId, resources)
  ELSE LET roles == userRoles(b, s, userId)
           perms == [r \in resources |->
                       _resourcePermissions(b, s, roles, r, HierarchyFuel)]
       IN [done |-> \A r \in resources : perms[r].done,
           val |-> [r \in resources |-> perms[r].val]]

\* permittedResources that takes a granted '*' for every permission asked
permittedResources_wildcard(b, s, roles, given, permissions) ==
  LET resources == _rolesResources(b, s, roles)
      perms == [r \in resources.val |->
                  _resourcePermissions(b, s, roles, r, HierarchyFuel)]
  IN [done |-> resources.done /\ \A r \in resources.val : perms[r].done,
      val |-> IF given
              THEN {r \in resources.val :
                      permissions \cap perms[r].val # {} \/ "*" \in perms[r].val}
              ELSE [r \in resources.val |-> perms[r].val]]

\* given: whether the permissions argument was passed
permittedResources(b, s, roles, given, permissions) ==
  LET resources == _rolesResources(b, s, roles)
      perms == [r \in resources.val |->
                  _resourcePermissions(b, s, roles, r, HierarchyFuel)]
  IN [done |-> resources.done /\ \A r \in resources.val : perms[r].done,
      val |-> IF given
              THEN {r \in resources.val : permissions \cap perms[r].val # {}}
              ELSE [r \in resources.val |-> perms[r].val]]

whatResources(b, s, roles, given, permissions) ==
  permittedResources(b, s, roles, given, permissions)

(***************************************************************************)
(* The store calls a query issues: for each query above, the set of calls  *)
(* it makes on the backend, each with its buckets and its keys.            *)
(***************************************************************************)
StoreCall(op, bucketSet, keys) == [op |-> op, buckets |-> bucketSet, keys |-> keys]

RECURSIVE _allRoles_calls(_, _, _, _)
_allRoles_calls(b, s, roleNames, fuel) ==
  IF fuel = 0 THEN {}
  ELSE LET parents == _rolesParents(b, s, roleNames)
       IN {StoreCall("union", {buckets.parents}, roleNames)}
          \cup (IF parents # {} THEN _allRoles_calls(b, s, parents, fuel - 1) ELSE {})

_allUserRoles_calls(b, s, userId) ==
  LET roles == userRoles(b, s, userId)
  IN {StoreCall("get", {buckets.users}, {userId})}
     \cup (IF roles # {} THEN _allRoles_calls(b, s, roles, HierarchyFuel) ELSE {})

RECURSIVE _resourcePermissions_calls(_, _, _, _, _)
_resourcePermissions_calls(b, s, roles, resource, fuel) ==
  IF roles = {} \/ fuel = 0 THEN {}
  ELSE LET parents == _rolesParents(b, s, roles)
       IN {StoreCall("union", {allowsBucket(resource)}, roles),
           StoreCall("union", {buckets.parents}, roles)}
          \cup (IF parents # {}
                THEN _resourcePermissions_calls(b, s, parents, resource, fuel - 1)
                ELSE {})

RECURSIVE _checkPermissions_calls(_, _, _, _, _, _)
_checkPermissions_calls(b, s, roles, resource, permissions, fuel) ==
  IF fuel = 0 THEN {}
  ELSE LET resourcePermissions == backend_union(b, s, allowsBucket(resource), roles)
           missing == permissions \ resourcePermissions
           parents == backend_union(b, s, buckets.parents, roles)
       IN {StoreCall("union", {allowsBucket(resource)}, roles)}
          \cup (IF "*" \in resourcePermissions \/ missing = {} THEN {}
                ELSE {StoreCall("union", {buckets.parents}, roles)}
                     \cup (IF parents # {}
                           THEN _checkPermissions_calls(b, s, parents, resource,
                                                        missing, fuel - 1)
                           ELSE {}))

isAllowed_calls(b, s, userId, resource, permissions) ==
  LET roles == backend_get(b, s, buckets.users, userId)
  IN {StoreCall("get", {buckets.users}, {userId})}
     \cup (IF roles # {}
           THEN _checkPermissions_calls(b, s, roles, resource, permissions,
                                        HierarchyFuel)
           ELSE {})

optimizedAllowedPermissions_calls(b, s, userId, resources) ==
  IF falsy(userId) THEN {}
  ELSE LET roles == _allUserRoles(b, s, userId)
           bucketSet == {allowsBucket(r) : r \in resources}
       IN _allUserRoles_calls(b, s, userId)
          \cup {StoreCall("unions", bucketSet, roles.val)}

allowedPermissions_calls(b, s, userId, resources) ==
  IF falsy(userId) THEN {}
  ELSE IF backend_hasUnions(b)
       THEN optimizedAllowedPermissions_calls(b, s, userId, resources)
  ELSE LET roles == userRoles(b, s, userId)
       IN {StoreCall("get", {buckets.users}, {userId})}
          \cup UNION {_resourcePermissions_calls(b, s, roles, r, HierarchyFuel) :
                        r \in resources}

(***************************************************************************)
(* The state machine.                                                      *)
(***************************************************************************)
NoResult == [op |-> "none"]

\* no call is in flight
Idle == [pc |-> "idle"]

\* The backend handed to the constructor is empty, or already holds what an
\* earlier Acl on the same backend wrote (the tests construct a new Acl on the
\* shared backend in every case): the role hierarchy c -> b -> a and the user
\* u2 with the role a.
SeededStore(b) ==
  addUserRoles(b,
    addRoleParents(b, addRoleParents(b, EmptyStore, "b", {"a"}), "c", {"b"}),
    "u2", {"a"})

Init ==
  /\ backend \in Backends
  /\ store \in {EmptyStore, SeededStore(backend)}
  /\ nops = 0
  /\ last = [op |-> "new"]
  /\ result = NoResult
  /\ pending = Idle

AddUserRoles ==
  \E userId \in Users, roles \in RoleArgs :
    /\ nops < MaxOps
    /\ result = NoResult
    /\ store' = addUserRoles(backend, store, userId, roles)
    /\ nops' = nops + 1
    /\ last' = [op |-> "addUserRoles", userId |-> userId, roles |-> roles]
    /\ UNCHANGED <<backend, result, pending>>

RemoveUserRoles ==
  \E userId \in Users, roles \in RoleArgs :
    /\ nops < MaxOps
    /\ result = NoResult
    /\ store' = removeUserRoles(backend, store, userId, roles)
    /\ nops' = nops + 1
    /\ last' = [op |-> "removeUserRoles", userId |-> userId, roles |-> roles]
    /\ UNCHANGED <<backend, result, pending>>

AddRoleParents ==
  \E role \in Roles, parents \in ParentArgs :
    /\ nops < MaxOps
    /\ result = NoResult
    /\ store' = addRoleParents(backend, store, role, parents)
    /\ nops' = nops + 1
    /\ last' = [op |-> "addRoleParents", role |-> role, parents |-> parents]
    /\ UNCHANGED <<backend, result, pending>>

RemoveRoleParents ==
  \E role \in Roles, given \in BOOLEAN, parents \in RemoveParentArgs :
    /\ nops < MaxOps
    /\ result = NoResult
    /\ given \/ parents = CHOOSE p \in RemoveParentArgs : TRUE
    /\ store' = removeRoleParents(backend, store, role, given, parents)
    /\ nops' = nops + 1
    /\ last' = [op |-> "removeRoleParents", role |-> role, given |-> given,
                parents |-> IF given THEN parents ELSE {}]
    /\ UNCHANGED <<backend, result, pending>>

RemoveRole ==
  \E role \in Roles :
    /\ nops < MaxOps
    /\ result = NoResult
    /\ store' = removeRole(backend, store, role)
    /\ nops' = nops + 1
    /\ last' = [op |-> "removeRole", role |-> role,
                resources |-> backend_get(backend, store, buckets.resources, role)]
    /\ UNCHANGED <<backend, result, pending>>

RemoveResource ==
  \E resource \in Resources :
    /\ nops < MaxOps
    /\ result = NoResult
    /\ store' = removeResource(backend, store, resource)
    /\ nops' = nops + 1
    /\ last' = [op |-> "removeResource", resource |-> resource,
                roles |-> backend_get(backend, store, buckets.meta, "roles")]
    /\ UNCHANGED <<backend, result, pending>>

Allow ==
  \E roles \in RoleArgs, resources \in ResourceArgs, permissions \in PermissionArgs :
    /\ nops < MaxOps
    /\ result = NoResult
    /\ store' = allow(backend, store, roles, resources, permissions)
    /\ nops' = nops + 1
    /\ last' = [op |-> "allow", roles |-> roles, resources |-> resources,
                permissions |-> permissions]
    /\ UNCHANGED <<backend, result, pending>>

RemoveAllow ==
  \E role \in Roles, resources \in ResourceArgs, given \in BOOLEAN,
     permissions \in RemovePermissionArgs :
    /\ nops < MaxOps
    /\ result = NoResult
    /\ given \/ permissions = CHOOSE p \in RemovePermissionArgs : TRUE
    /\ store' = removeAllow(backend, store, role, resources, given, permissions)
    /\ nops' = nops + 1
    /\ last' = [op |-> "removeAllow", role |-> role, resources |-> resources,
                given |-> given, permissions |-> IF given THEN permissions ELSE {}]
    /\ UNCHANGED <<backend, result, pending>>

\* userRoles that registers the user it is asked about
UserRoles_registers ==
  \E userId \in QueryUsers :
    /\ result = NoResult
    /\ result' = [op |-> "userRoles", userId |-> userId,
                  ret |-> userRoles(backend, store, userId)]
    /\ store' = Batch(backend, store, << AddCall(buckets.meta, "users", {userId}) >>)
    /\ UNCHANGED <<backend, nops, last, pending>>

UserRoles ==
  \E userId \in QueryUsers :
    /\ result = NoResult
    /\ result' = [op |-> "userRoles", userId |-> userId,
                  ret |-> userRoles(backend, store, userId)]
    /\ UNCHANGED <<backend, store, nops, last, pending>>

RoleUsers ==
  \E roleName \in UNION QueryRoleArgs :
    /\ result = NoResult
    /\ result' = [op |-> "roleUsers", roleName |-> roleName,
                  ret |-> roleUsers(backend, store, roleName)]
    /\ UNCHANGED <<backend, store, nops, last, pending>>

HasRole ==
  \E userId \in QueryUsers, rolename \in UNION QueryRoleArgs :
    /\ result = NoResult
    /\ result' = [op |-> "hasRole", userId |-> userId, rolename |-> rolename,
                  ret |-> hasRole(backend, store, userId, rolename)]
    /\ UNCHANGED <<backend, store, nops, last, pending>>

IsAllowed ==
  \E userId \in QueryUsers, resource \in Resources,
     permissions \in QueryPermissionArgs :
    LET r == isAllowed(backend, store, userId, resource, permissions)
    IN /\ result = NoResult
       /\ r.done
       /\ result' = [op |-> "isAllowed", userId |-> userId, resource |-> resource,
                     permissions |-> permissions, ret |-> r.val]
       /\ UNCHANGED <<backend, store, nops, last, pending>>

AllowedPermissions ==
  \E userId \in QueryUsers :
    LET r == allowedPermissions(backend, store, userId, Resources)
    IN /\ result = NoResult
       /\ r.done
       /\ result' = [op |-> "allowedPermissions", userId |-> userId,
                     resources |-> Resources, ret |-> r.val]
       /\ UNCHANGED <<backend, store, nops, last, pending>>

WhatResources ==
  \E roles \in QueryRoleArgs, given \in BOOLEAN,
     permissions \in QueryPermissionArgs :
    LET r == whatResources(backend, store, roles, given, permissions)
    IN /\ result = NoResult
       /\ r.done
       /\ result' = [op |-> "whatResources", roles |-> roles, given |-> given,
                     permissions |-> IF given THEN permissions ELSE {},
                     ret |-> r.val]
       /\ UNCHANGED <<backend, store, nops, last, pending>>

\* the caller takes the value of the query and goes on
Continue ==
  /\ result # NoResult
  /\ result' = NoResult
  /\ UNCHANGED <<backend, store, nops, last, pending>>

(***************************************************************************)
(* Calls that share the store with other callers.  A public operation      *)
(* makes several round trips to the store and another caller's operation   *)
(* can complete between two of them; pending is the operation that has     *)
(* made some of its round trips, with what it has read or queued so far.   *)
(* The other caller's operation is one of the actions above.               *)
(***************************************************************************)
\* removeAllow up to the end() of its first transaction
RemoveAllow_first ==
  \E role \in Roles, resources \in ResourceArgs, permissions \in RacePermissionArgs :
    /\ pending = Idle
    /\ nops < MaxOps
    /\ result = NoResult
    /\ store' = removePermissions_first(backend, store, role, resources, TRUE,
                                        permissions)
    /\ nops' = nops + 1
    /\ pending' = [pc |-> "second", op |-> "removeAllow", role |-> role,
                   resources |-> resources, permissions |-> permissions]
    /\ UNCHANGED <<backend, last, result>>

\* removeAllow, second transaction: the get of every allows bucket
RemoveAllow_read ==
  /\ pending.pc = "second"
  /\ pending' = [pc |-> "end", op |-> "removeAllow", role |-> pending.role,
                 resources |-> pending.resources,
                 permissions |-> pending.permissions,
                 empty |-> removePermissions_second_read(backend, store,
                             pending.role, pending.resources)]
  /\ UNCHANGED <<backend, store, nops, last, result>>

\* removeAllow, second transaction: its end()
RemoveAllow_end ==
  /\ pending.pc = "end"
  /\ store' = removePermissions_second_end(backend, store, pending.role,
                                           pending.empty)
  /\ last' = [op |-> "removeAllow", role |-> pending.role,
              resources |-> pending.resources, given |-> TRUE,
              permissions |-> pending.permissions]
  /\ pending' = Idle
  /\ UNCHANGED <<backend, nops, result>>

\* removeRole that opens its batch without reading resources[role]
RemoveRole_read_nothing ==
  \E role \in Roles :
    /\ pending = Idle
    /\ nops < MaxOps
    /\ result = NoResult
    /\ nops' = nops + 1
    /\ pending' = [pc |-> "batch", op |-> "removeRole", role |-> role,
                   resources |-> {}]
    /\ UNCHANGED <<backend, store, last, result>>

\* removeRole up to its get of resources[role]
RemoveRole_read ==
  \E role \in Roles :
    /\ pending = Idle
    /\ nops < MaxOps
    /\ result = NoResult
    /\ nops' = nops + 1
    /\ pending' = [pc |-> "batch", op |-> "removeRole", role |-> role,
                   resources |-> backend_get(backend, store, buckets.resources,
                                             role)]
    /\ UNCHANGED <<backend, store, last, result>>

\* removeRole, its deletion batch over what it has read
RemoveRole_end ==
  /\ pending.pc = "batch"
  /\ store' = removeRole_batch(backend, store, pending.role, pending.resources)
  /\ last' = [op |-> "removeRole", role |-> pending.role,
              resources |-> pending.resources]
  /\ pending' = Idle
  /\ UNCHANGED <<backend, nops, result>>

\* allow up to its end() on a store that does not isolate the batch
Allow_begin ==
  \E roles \in RoleArgs, resources \in ResourceArgs,
     permissions \in RacePermissionArgs :
    /\ pending = Idle
    /\ ~backend_isolates(backend)
    /\ nops < MaxOps
    /\ result = NoResult
    /\ nops' = nops + 1
    /\ pending' = [pc |-> "applying", op |-> "allow", roles |-> roles,
                   resources |-> resources, permissions |-> permissions,
                   calls |-> allow_batch(roles, resources, permissions)]
    /\ UNCHANGED <<backend, store, last, result>>

\* the store applies the next operation of the batch of allow
Allow_apply ==
  /\ pending.pc = "applying"
  /\ store' = Batch(backend, store, << Head(pending.calls) >>)
  /\ IF Len(pending.calls) = 1
     THEN /\ pending' = Idle
          /\ last' = [op |-> "allow", roles |-> pending.roles,
                      resources |-> pending.resources,
                      permissions |-> pending.permissions]
     ELSE /\ pending' = [pending EXCEPT !.calls = Tail(pending.calls)]
          /\ UNCHANGED last
  /\ UNCHANGED <<backend, nops, result>>

\* the calls that write
Mutations ==
  \/ AddUserRoles
  \/ RemoveUserRoles
  \/ AddRoleParents
  \/ RemoveRoleParents
  \/ RemoveRole
  \/ RemoveResource
  \/ Allow
  \/ RemoveAllow

\* the calls that read
Queries ==
  \/ UserRoles
  \/ RoleUsers
  \/ HasRole
  \/ IsAllowed
  \/ AllowedPermissions
  \/ WhatResources

Next ==
  \/ Mutations
  \/ Queries
  \/ Continue

Spec == Init /\ [][Next]_vars

\* the runs of completed writing calls, one after the other, no query between
SpecMutations == Init /\ [][Mutations]_vars

\* the calls that write the grants: the allows buckets and their index
GrantCalls ==
  \/ Allow
  \/ RemoveAllow
  \/ RemoveRole
  \/ RemoveResource

SpecGrants == Init /\ [][GrantCalls]_vars

\* the grant calls, and between them the caller asking what the roles hold
ResourceCalls ==
  \/ GrantCalls
  \/ WhatResources
  \/ Continue

SpecResources == Init /\ [][ResourceCalls]_vars

\* enrolling users, building the hierarchy and granting, and between them the
\* caller asking what a user may do
PermissionCalls ==
  \/ AddUserRoles
  \/ AddRoleParents
  \/ Allow
  \/ AllowedPermissions
  \/ Continue

SpecPermissions == Init /\ [][PermissionCalls]_vars

\* the calls that build and cut the role hierarchy, with the enrolments and
\* grants whose effect the hierarchy carries
HierarchyCalls ==
  \/ AddRoleParents
  \/ RemoveRoleParents
  \/ AddUserRoles
  \/ Allow

SpecHierarchy == Init /\ [][HierarchyCalls]_vars

\* removeAllow in its two transactions, sharing the store with allow
RemoveAllowRace ==
  \/ RemoveAllow_first
  \/ RemoveAllow_read
  \/ RemoveAllow_end
  \/ Allow

SpecRemoveAllowRace == Init /\ [][RemoveAllowRace]_vars

\* allow on a store that applies its batch one operation at a time, sharing
\* the store with removeAllow
BatchRace ==
  \/ Allow_begin
  \/ Allow_apply
  \/ RemoveAllow

SpecBatchRace == Init /\ [][BatchRace]_vars

\* removeRole in its read and its batch, sharing the store with allow
RemoveRoleRace ==
  \/ RemoveRole_read
  \/ RemoveRole_end
  \/ Allow

SpecRemoveRoleRace == Init /\ [][RemoveRoleRace]_vars

\* the calls that enrol users and strike them off, with the grants and the
\* role removals that decide what a membership is worth
MembershipCalls ==
  \/ AddUserRoles
  \/ RemoveUserRoles
  \/ Allow
  \/ RemoveRole

SpecMembership == Init /\ [][MembershipCalls]_vars

(***************************************************************************)
(* The data model of the store, read off the buckets directly.  The claims *)
(* below compare the answers of the engine with these.                     *)
(***************************************************************************)
Raw(s, bucket, key) ==
  IF bucket \in DOMAIN s /\ key \in DOMAIN s[bucket] THEN s[bucket][key] ELSE {}

\* the roles reachable from the roles of S through parents, S included
RECURSIVE Closure(_, _)
Closure(s, S) ==
  LET next == S \cup UNION {Raw(s, buckets.parents, r) : r \in S}
  IN IF next = S THEN S ELSE Closure(s, next)

\* no role is its own ancestor
Acyclic(s) ==
  \A r \in Roles : r \notin Closure(s, Raw(s, buckets.parents, r))

\* every permission granted on the resource to a role of the closure of S
Granted(s, S, resource) ==
  UNION {Raw(s, allowsBucket(resource), r) : r \in Closure(s, S)}

PermissionLists == SUBSET Permissions

(***************************************************************************)
(* C1.  Over an acyclic parents graph, isAllowed(u, R, P) returns true     *)
(* exactly when u has a role and, G being the union of allows(R)[r] over   *)
(* the closure of u's roles, '*' is in G or every permission of P is in G; *)
(* the level-by-level check answers as the full aggregation of             *)
(* _resourcePermissions does.                                              *)
(***************************************************************************)
C1_IsAllowedIsAggregate ==
  Acyclic(store) =>
    \A u \in Users, R \in Resources, P \in PermissionLists :
      LET roles == Raw(store, buckets.users, u)
          G == Granted(store, roles, R)
          agg == _resourcePermissions(backend, store, roles, R, HierarchyFuel)
          ans == isAllowed(backend, store, u, R, P)
      IN /\ ans.done /\ agg.done
         /\ ans.val = (roles # {} /\ ("*" \in G \/ P \subseteq G))
         /\ ans.val = (roles # {} /\ ("*" \in agg.val \/ P \subseteq agg.val))

\* isAllowed has answered true for permissions the user's own roles do not
\* hold: the grant was found on an ancestor
C1_Witness ==
  /\ result.op = "isAllowed"
  /\ result.ret = TRUE
  /\ Acyclic(store)
  /\ Raw(store, buckets.users, result.userId) # {}
  /\ \A r \in Raw(store, buckets.users, result.userId) :
       Raw(store, allowsBucket(result.resource), r) = {}

(***************************************************************************)
(* C2.  Permissions flow from parent to child over any number of levels:   *)
(* over an acyclic parents graph, when role a is reachable from role c     *)
(* through parents edges and a holds permission p on resource R (allow has *)
(* granted it and nothing has revoked it), isAllowed(u, R, p) is true for  *)
(* every user u with c among userRoles(u).                                 *)
(***************************************************************************)
C2_InheritedGrant ==
  Acyclic(store) =>
    /\ \A u \in Users, R \in Resources :
         \A c \in userRoles(backend, store, u) :
           \A a \in Closure(store, {c}) :
             \A p \in Raw(store, allowsBucket(R), a) :
               isAllowed(backend, store, u, R, {p}) = [done |-> TRUE, val |-> TRUE]
    /\ last.op = "allow" =>
         \A u \in Users, R \in last.resources, p \in last.permissions :
           \A c \in userRoles(backend, store, u) :
             last.roles \cap Closure(store, {c}) # {} =>
               isAllowed(backend, store, u, R, {p}) = [done |-> TRUE, val |-> TRUE]

\* isAllowed has answered true for a grant held two levels above the user's
\* roles: neither they nor their parents hold anything on the resource
C2_Witness ==
  LET roles == Raw(store, buckets.users, result.userId)
      parents == UNION {Raw(store, buckets.parents, r) : r \in roles}
  IN /\ result.op = "isAllowed"
     /\ result.ret = TRUE
     /\ Acyclic(store)
     /\ \A r \in roles \cup parents :
          Raw(store, allowsBucket(result.resource), r) = {}

(***************************************************************************)
(* C3.  When a role of the closure of a user's roles holds '*' on resource *)
(* R (allow(r, R, '*') has granted it), isAllowed(u, R, P) is true for     *)
(* every permission list P, also for permissions never granted one by one. *)
(* The wildcard is per resource: for a resource R2 on which no role of the *)
(* user's closure holds any grant, isAllowed(u, R2, P) answers nothing but *)
(* false for every non-empty P, and it does answer whenever the parents    *)
(* graph is acyclic.                                                       *)
(***************************************************************************)
C3_WildcardPerResource ==
  \A u \in Users, R \in Resources :
    LET G == Granted(store, Raw(store, buckets.users, u), R)
    IN /\ "*" \in G =>
            \A P \in PermissionLists :
              isAllowed(backend, store, u, R, P) = [done |-> TRUE, val |-> TRUE]
       /\ G = {} =>
            \A P \in PermissionLists \ {{}} :
              LET ans == isAllowed(backend, store, u, R, P)
              IN /\ ans.done => ans.val = FALSE
                 /\ Acyclic(store) => ans.done
       /\ ( /\ last.op = "allow"
            /\ "*" \in last.permissions
            /\ R \in last.resources
            /\ last.roles \cap Closure(store, userRoles(backend, store, u)) # {} ) =>
            \A P \in PermissionLists :
              isAllowed(backend, store, u, R, P) = [done |-> TRUE, val |-> TRUE]

\* isAllowed has answered true on the strength of '*' alone, while the user's
\* closure holds nothing on another resource
C3_Witness ==
  LET roles == Raw(store, buckets.users, result.userId)
  IN /\ result.op = "isAllowed"
     /\ result.ret = TRUE
     /\ Granted(store, roles, result.resource) = {"*"}
     /\ \E R2 \in Resources \ {result.resource} :
          /\ Granted(store, roles, R2) = {}
          /\ isAllowed(backend, store, result.userId, R2, result.permissions)
               = [done |-> TRUE, val |-> FALSE]

(***************************************************************************)
(* C4.  removeAllow removes only what it is given: removeAllow(r, R, P)    *)
(* leaves allows(R)[r] equal to what it was minus P.  For a role r with no *)
(* parents and no '*' on R, after allow(r, R, {p, q}) and                  *)
(* removeAllow(r, R, p) a user whose only role is r gets false from        *)
(* isAllowed(u, R, p) and true from isAllowed(u, R, q).                    *)
(***************************************************************************)
C4_RemoveAllowRemovesOnlyP ==
  /\ \A r \in Roles, resources \in ResourceArgs, P \in PermissionLists :
       LET after == removeAllow(backend, store, r, resources, TRUE, P)
       IN \A R \in resources :
            Raw(after, allowsBucket(R), r) = Raw(store, allowsBucket(R), r) \ P
  /\ \A r \in Roles, R \in Resources :
       LET granted == allow(backend, store, {r}, {R}, {"p", "q"})
           after == removeAllow(backend, granted, r, {R}, TRUE, {"p"})
       IN (Raw(granted, buckets.parents, r) = {}
             /\ "*" \notin Raw(granted, allowsBucket(R), r)) =>
            \A u \in Users :
              userRoles(backend, granted, u) = {r} =>
                /\ isAllowed(backend, after, u, R, {"p"}) = [done |-> TRUE, val |-> FALSE]
                /\ isAllowed(backend, after, u, R, {"q"}) = [done |-> TRUE, val |-> TRUE]

\* removeAllow(r, R, p) has taken p from a role that held p and q; a user
\* holds that role alone and the role has no parents
C4_Witness ==
  /\ last.op = "removeAllow"
  /\ last.given
  /\ last.permissions = {"p"}
  /\ Raw(store, buckets.parents, last.role) = {}
  /\ \E R \in last.resources : Raw(store, allowsBucket(R), last.role) = {"q"}
  /\ \E u \in Users : Raw(store, buckets.users, u) = {last.role}

(***************************************************************************)
(* C5.  removeRole(role1) is scoped to role1: for every other role role2   *)
(* and every resource R, allows(R)[role2], resources[role2],               *)
(* parents[role2] and roles[role2] are what they were before the call,     *)
(* also when both roles held the same permissions on the same resource.    *)
(***************************************************************************)
C5_RemoveRoleScoped ==
  \A role1 \in Roles :
    LET after == removeRole(backend, store, role1)
    IN \A role2 \in Roles \ {role1} :
         /\ \A R \in Resources :
              Raw(after, allowsBucket(R), role2) = Raw(store, allowsBucket(R), role2)
         /\ Raw(after, buckets.resources, role2) = Raw(store, buckets.resources, role2)
         /\ Raw(after, buckets.parents, role2) = Raw(store, buckets.parents, role2)
         /\ Raw(after, buckets.roles, role2) = Raw(store, buckets.roles, role2)

\* removeRole has removed a role with grants on a resource on which another
\* role still holds its grants
C5_Witness ==
  /\ last.op = "removeRole"
  /\ \E R \in last.resources, role2 \in Roles \ {last.role} :
       /\ Raw(store, allowsBucket(R), role2) # {}
       /\ R \in Raw(store, buckets.resources, role2)
       /\ Raw(store, allowsBucket(R), last.role) = {}

(***************************************************************************)
(* C6.  After removeRole(r), r confers nothing: allows(R)[r] is empty for  *)
(* every resource R, resources[r] and parents[r] are empty, r is not in    *)
(* meta['roles'], whatResources(r) is the empty map, and a user whose only *)
(* role is r gets the empty permission list for every requested resource   *)
(* from allowedPermissions and false from isAllowed for every non-empty    *)
(* permission list.                                                        *)
(***************************************************************************)
C6_RemovedRoleConfersNothing ==
  \A r \in Roles :
    LET after == removeRole(backend, store, r)
    IN /\ \A R \in Resources : Raw(after, allowsBucket(R), r) = {}
       /\ Raw(after, buckets.resources, r) = {}
       /\ Raw(after, buckets.parents, r) = {}
       /\ r \notin Raw(after, buckets.meta, "roles")
       /\ whatResources(backend, after, {r}, FALSE, {}) = [done |-> TRUE, val |-> EmptyMap]
       /\ \A u \in Users :
            userRoles(backend, after, u) = {r} =>
              /\ \A resources \in (SUBSET Resources) \ {{}} :
                   allowedPermissions(backend, after, u, resources)
                     = [done |-> TRUE, val |-> [R \in resources |-> {}]]
              /\ \A R \in Resources, P \in PermissionLists \ {{}} :
                   isAllowed(backend, after, u, R, P) = [done |-> TRUE, val |-> FALSE]

\* removeRole has removed a role that had grants; a user holds that role
\* alone and isAllowed answers false to that user on a resource of the role
C6_Witness ==
  /\ last.op = "removeRole"
  /\ \E u \in Users, R \in last.resources :
       /\ Raw(store, buckets.users, u) = {last.role}
       /\ isAllowed(backend, store, u, R, {"p"}) = [done |-> TRUE, val |-> FALSE]

(***************************************************************************)
(* C7.  removeRole(r) never modifies a users[...] set or meta['users']: a  *)
(* user who was given r with addUserRoles still has r in userRoles(u)      *)
(* after removeRole(r), and hasRole(u, r) is still true.                   *)
(***************************************************************************)
C7_RemoveRoleKeepsMembership ==
  \A r \in Roles :
    /\ LET after == removeRole(backend, store, r)
       IN /\ after[buckets.users] = store[buckets.users]
          /\ Raw(after, buckets.meta, "users") = Raw(store, buckets.meta, "users")
    /\ \A u \in Users :
         LET added == addUserRoles(backend, store, u, {r})
             after == removeRole(backend, added, r)
         IN /\ userRoles(backend, after, u) = userRoles(backend, added, u)
            /\ hasRole(backend, after, u, r) = hasRole(backend, added, u, r)
            /\ Raw(after, buckets.meta, "users") = Raw(added, buckets.meta, "users")

\* removeRole has removed a role, and hasRole still answers true for it
C7_Witness ==
  /\ last.op = "removeRole"
  /\ \E u \in Users : hasRole(backend, store, u, last.role)

\* the pair (u, r) is held in both directions or in none
InSync(b, s, u, r) == hasRole(b, s, u, r) <=> u \in roleUsers(b, s, r)

(***************************************************************************)
(* C8.  User-role membership in both directions.  In every state reached   *)
(* by completed public operations, u in roleUsers(r) implies hasRole(u, r).*)
(* The converse holds as long as removeRole(r) is not called: every        *)
(* operation other than removeRole(r) leaves a pair (u, r) for which       *)
(* hasRole(u, r) is true exactly when u is in roleUsers(r) such a pair,    *)
(* while removeRole(r) empties roles[r] and leaves r in users[u].          *)
(***************************************************************************)
C8_MembershipSyncButRemoveRole ==
  /\ [](\A u \in Users, r \in Roles :
          u \in roleUsers(backend, store, r) => hasRole(backend, store, u, r))
  /\ [][\A u \in Users, r \in Roles :
          IF last'.op = "removeRole" /\ last'.role = r
          THEN /\ roleUsers(backend', store', r) = {}
               /\ hasRole(backend', store', u, r) = hasRole(backend, store, u, r)
          ELSE InSync(backend, store, u, r) => InSync(backend', store', u, r)]_vars

\* C8 as stated: in every state r is in users[u] exactly when u is in roles[r]
C8_AsStated ==
  \A u \in Users, r \in Roles : InSync(backend, store, u, r)

\* removeRole has left a user with a role that lists no user, next to a pair
\* of another role that is held in both directions
C8_Witness ==
  /\ last.op = "removeRole"
  /\ \E u \in Users :
       /\ hasRole(backend, store, u, last.role)
       /\ u \notin roleUsers(backend, store, last.role)
  /\ \E u \in Users, r \in Roles \ {last.role} :
       /\ hasRole(backend, store, u, r)
       /\ u \in roleUsers(backend, store, r)

(***************************************************************************)
(* C9.  After removeResource(R) no role has any grant on R and R is in no  *)
(* index: allows(R)[r] is empty and R is not in resources[r] for every     *)
(* role r, so allowedPermissions(u, R) maps R to the empty list for every  *)
(* user, whatResources(roles) has no key R for every role set, and         *)
(* isAllowed(u, R, P) is false for every non-empty P; the grants on every  *)
(* other resource are what they were.  The three queries answer nothing    *)
(* else, and they do answer whenever the parents graph is acyclic.         *)
(***************************************************************************)
C9_RemovedResourceHasNoGrants ==
  \A R \in Resources :
    LET after == removeResource(backend, store, R)
    IN /\ \A r \in Roles :
            /\ Raw(after, allowsBucket(R), r) = {}
            /\ R \notin Raw(after, buckets.resources, r)
            /\ \A R2 \in Resources \ {R} :
                 Raw(after, allowsBucket(R2), r) = Raw(store, allowsBucket(R2), r)
       /\ \A u \in Users :
            LET ans == allowedPermissions(backend, after, u, {R})
            IN /\ ans.done => ans.val = [x \in {R} |-> {}]
               /\ Acyclic(after) => ans.done
       /\ \A roles \in SUBSET Roles :
            LET ans == whatResources(backend, after, roles, FALSE, {})
            IN /\ ans.done => R \notin DOMAIN ans.val
               /\ Acyclic(after) => ans.done
       /\ \A u \in Users, P \in PermissionLists \ {{}} :
            LET ans == isAllowed(backend, after, u, R, P)
            IN /\ ans.done => ans.val = FALSE
               /\ Acyclic(after) => ans.done

\* removeResource has swept the roles it read, and one of them keeps its
\* grants on another resource, the only resource left in its index
C9_Witness ==
  /\ last.op = "removeResource"
  /\ \E r \in last.roles, R2 \in Resources \ {last.resource} :
       /\ Raw(store, allowsBucket(R2), r) # {}
       /\ Raw(store, buckets.resources, r) = {R2}
       /\ \E u \in Users : r \in Raw(store, buckets.users, u)

\* the permission sets A and B of C10: empty, equal, overlapping, disjoint
AdditivePermissionArgs == {{}, {"p"}, {"p", "q"}, {"q", "*"}}

(***************************************************************************)
(* C10.  allow is additive and order-independent: for a role set, a        *)
(* resource set and permission sets A and B, overlapping or not, the store *)
(* after allow(r, res, A); allow(r, res, B) is the store after             *)
(* allow(r, res, B); allow(r, res, A) and is the store after the one call  *)
(* allow(r, res, A union B).                                               *)
(***************************************************************************)
C10_AllowAdditive ==
  \A roles \in RoleArgs, resources \in ResourceArgs :
    \A A \in AdditivePermissionArgs, B \in AdditivePermissionArgs :
      LET afterAB == allow(backend,
                           allow(backend, store, roles, resources, A),
                           roles, resources, B)
          afterBA == allow(backend,
                           allow(backend, store, roles, resources, B),
                           roles, resources, A)
          atOnce == allow(backend, store, roles, resources, A \cup B)
      IN /\ afterAB = atOnce
         /\ afterBA = atOnce

\* a second allow on the same role and resource has added to what the first
\* had granted
C10_Witness ==
  /\ last.op = "allow"
  /\ \E r \in last.roles, R \in last.resources :
       /\ last.permissions # Raw(store, allowsBucket(R), r)
       /\ Raw(store, allowsBucket(R), r) = {"p", "q", "*"}

(***************************************************************************)
(* C11.  allow never removes anything: for every call                      *)
(* allow(roles, resources, P), every permission present in any             *)
(* allows(R)[r] before the call is present after it, the users, roles and  *)
(* parents buckets are unchanged, and repeating the same call leaves the   *)
(* whole store unchanged.  It grants P on the full cross-product of roles  *)
(* and resources (wherever the backend applies the batch it is handed) and *)
(* on no other (role, resource) pair.                                      *)
(***************************************************************************)
C11_AllowOnlyAdds ==
  \A roles \in RoleArgs, resources \in ResourceArgs, P \in PermissionLists :
    LET after == allow(backend, store, roles, resources, P)
    IN /\ \A r \in Roles, R \in Resources :
            LET was == Raw(store, allowsBucket(R), r)
                is == Raw(after, allowsBucket(R), r)
            IN /\ was \subseteq is
               /\ IF r \in roles /\ R \in resources
                  THEN /\ is \subseteq was \cup P
                       /\ backend # "mongodb" => is = was \cup P
                  ELSE is = was
       /\ after[buckets.users] = store[buckets.users]
       /\ after[buckets.roles] = store[buckets.roles]
       /\ after[buckets.parents] = store[buckets.parents]
       /\ allow(backend, after, roles, resources, P) = after

\* an allow call has added to a role that held other permissions on the
\* resource, next to a role outside the call that keeps its own
C11_Witness ==
  /\ last.op = "allow"
  /\ \E r \in last.roles, R \in last.resources :
       /\ last.permissions \subseteq Raw(store, allowsBucket(R), r)
       /\ Raw(store, allowsBucket(R), r) \ last.permissions # {}
       /\ \E r2 \in Roles \ last.roles :
            /\ Raw(store, allowsBucket(R), r2) # {}
            /\ ~(last.permissions \subseteq Raw(store, allowsBucket(R), r2))

\* the index of the role lists the resource exactly when the role holds a
\* permission on it
IndexConsistent(s) ==
  \A role \in Roles, R \in Resources :
    R \in Raw(s, buckets.resources, role) <=> Raw(s, allowsBucket(R), role) # {}

(***************************************************************************)
(* C12.  Index consistency: in every state reached after a completed       *)
(* public mutating call, calls not interleaving, resource R is in          *)
(* resources[role] if and only if allows(R)[role] is non-empty, for every  *)
(* role and resource; after removeAllow has subtracted the last permission *)
(* a role holds on R, R is not in resources[role] and is no key of         *)
(* whatResources(role).                                                    *)
(***************************************************************************)
C12_AsStated ==
  /\ IndexConsistent(store)
  /\ \A role \in Roles, R \in Resources :
       LET held == Raw(store, allowsBucket(R), role)
           after == removeAllow(backend, store, role, {R}, TRUE, held)
           ans == whatResources(backend, after, {role}, FALSE, {})
       IN held # {} =>
            /\ R \notin Raw(after, buckets.resources, role)
            /\ (ans.done /\ R \in DOMAIN ans.val) =>
                 \E other \in Closure(after, {role}) \ {role} :
                   Raw(after, allowsBucket(R), other) # {}

\* the role names that occur in the parents bucket as a child key
ParentsChildren(s) == {role \in Roles : Raw(s, buckets.parents, role) # {}}

\* the role names that occur in the parents bucket as a parent value
ParentsValues(s) == UNION {Raw(s, buckets.parents, role) : role \in Roles}

\* the role names that occur in the resources bucket or in an allows bucket
GrantHolders(s) ==
  {role \in Roles :
     \/ Raw(s, buckets.resources, role) # {}
     \/ \E R \in Resources : Raw(s, allowsBucket(R), role) # {}}

(***************************************************************************)
(* C13.  Role registry: in every state reached after a completed public    *)
(* mutating call, every role name that occurs in the parents bucket, as a  *)
(* child key or as a parent value, in the resources bucket or in an allows *)
(* bucket is a member of meta["roles"].                                    *)
(***************************************************************************)
C13_AsStated ==
  ParentsChildren(store) \cup ParentsValues(store) \cup GrantHolders(store)
    \subseteq Raw(store, buckets.meta, "roles")

\* the lists of resources a query is asked about
ResourceLists == SUBSET Resources

(***************************************************************************)
(* C14.  Over an acyclic parents graph, for every user and every list of   *)
(* resources, the level-by-level aggregation allowedPermissions runs on a  *)
(* store without unions and optimizedAllowedPermissions (closure once,     *)
(* then one unions call) both return, with the same keys and the same      *)
(* permission set under each key.                                          *)
(***************************************************************************)
C14_StrategiesAgree ==
  (Acyclic(store) /\ backend # "mongodb") =>
    \A u \in Users, rs \in ResourceLists :
      LET plain == allowedPermissions("plain", store, u, rs)
          optimized == optimizedAllowedPermissions("memory", store, u, rs)
      IN /\ plain.done
         /\ optimized.done
         /\ DOMAIN plain.val = DOMAIN optimized.val
         /\ \A R \in DOMAIN plain.val : plain.val[R] = optimized.val[R]

\* allowedPermissions has answered on the store without unions, and the user
\* holds on a resource a permission no direct role of theirs was granted
C14_Witness ==
  /\ backend = "plain"
  /\ Acyclic(store)
  /\ result.op = "allowedPermissions"
  /\ \E R \in result.resources :
       result.ret[R] \ UNION {Raw(store, allowsBucket(R), r) :
                               r \in Raw(store, buckets.users, result.userId)} # {}

ReadsUserRoles(u) == {StoreCall("get", {buckets.users}, {u})}

(***************************************************************************)
(* C16.  For a user with an empty role set, isAllowed returns false and    *)
(* allowedPermissions returns the empty permission list for every          *)
(* requested resource, each after reading only users[user]: no get, union  *)
(* or unions on parents or on an allows bucket follows, under the          *)
(* aggregation strategy of either kind of store.                           *)
(***************************************************************************)
C16_AsStated ==
  \A u \in Users :
    Raw(store, buckets.users, u) = {} =>
      /\ \A R \in Resources, P \in PermissionLists :
           /\ isAllowed(backend, store, u, R, P) = [done |-> TRUE, val |-> FALSE]
           /\ isAllowed_calls(backend, store, u, R, P) = ReadsUserRoles(u)
      /\ \A rs \in ResourceLists :
           /\ allowedPermissions(backend, store, u, rs)
                = [done |-> TRUE, val |-> [R \in rs |-> {}]]
           /\ allowedPermissions_calls(backend, store, u, rs) = ReadsUserRoles(u)

\* the sets of roles a query is asked about
RoleLists == SUBSET Roles

\* the resources the index lists for a role of the closure of S
Indexed(s, S) == UNION {Raw(s, buckets.resources, r) : r \in Closure(s, S)}

(***************************************************************************)
(* C17.  whatResources(roles) without a permissions argument returns a map *)
(* whose keys are exactly the resources listed in resources[r] for some r  *)
(* of the ancestor closure of roles, the given roles included, each mapped *)
(* to the union of allows(resource)[r] over that closure; roles with       *)
(* neither direct nor inherited grants, no role of the closure holding a   *)
(* permission on any resource, give the empty map.                         *)
(***************************************************************************)
C17_AsStated ==
  \A roles \in RoleLists :
    LET ans == whatResources(backend, store, roles, FALSE, {})
    IN /\ Acyclic(store) => ans.done
       /\ ans.done =>
            /\ DOMAIN ans.val = Indexed(store, roles)
            /\ \A R \in DOMAIN ans.val : ans.val[R] = Granted(store, roles, R)
            /\ (\A R \in Resources : Granted(store, roles, R) = {})
                 => ans.val = EmptyMap

RECURSIVE ClosureWithout(_, _, _, _)
ClosureWithout(s, S, role, P) ==
  LET next == S \cup UNION {IF r = role THEN Raw(s, buckets.parents, r) \ P
                                        ELSE Raw(s, buckets.parents, r) : r \in S}
  IN IF next = S THEN S ELSE ClosureWithout(s, next, role, P)

\* every bucket but parents, and in parents every key but role, is as before
ParentsFrame(s, after, role) ==
  /\ \A bucket \in DOMAIN s \ {buckets.parents} : after[bucket] = s[bucket]
  /\ \A other \in KeyNames \ {role} :
       Raw(after, buckets.parents, other) = Raw(s, buckets.parents, other)

(***************************************************************************)
(* C19.  removeRoleParents(role, P) leaves parents[role] equal to its      *)
(* previous value minus P and, when P is omitted, empty; the parents of    *)
(* every other role and all grants are unchanged.  Removing a role that is *)
(* not a parent changes nothing, so no query result; removing a parent     *)
(* leaves a user exactly the permissions reached without the removed       *)
(* edges; removeRoleParents(role) a second time changes nothing.           *)
(***************************************************************************)
C19_RemoveRoleParents ==
  \A role \in Roles :
    /\ \A P \in RoleLists :
         LET after == removeRoleParents(backend, store, role, TRUE, P)
         IN /\ Raw(after, buckets.parents, role)
                 = Raw(store, buckets.parents, role) \ P
            /\ ParentsFrame(store, after, role)
            /\ (P \cap Raw(store, buckets.parents, role) = {}) => after = store
            /\ \A u \in Users, R \in Resources :
                 LET ans == allowedPermissions(backend, after, u, {R})
                     reached == ClosureWithout(store, Raw(store, buckets.users, u),
                                               role, P)
                 IN /\ Acyclic(after) => ans.done
                    /\ ans.done =>
                         ans.val[R] = UNION {Raw(store, allowsBucket(R), r) :
                                               r \in reached}
    /\ LET after == removeRoleParents(backend, store, role, FALSE, {})
       IN /\ Raw(after, buckets.parents, role) = {}
          /\ ParentsFrame(store, after, role)
          /\ removeRoleParents(backend, after, role, FALSE, {}) = after

\* removeRoleParents has taken a parent from a role, and the role has lost a
\* permission that came through the parent
C19_Witness ==
  /\ last.op = "removeRoleParents"
  /\ last.given
  /\ \E roles \in RoleArgs, resources \in ResourceArgs,
        permissions \in PermissionArgs, u \in Users :
       LET before == allow(backend, SeededStore(backend), roles, resources,
                           permissions)
       IN /\ store = removeRoleParents(backend, before, last.role, TRUE,
                                       last.parents)
          /\ last.parents \cap Raw(before, buckets.parents, last.role) # {}
          /\ \E R \in Resources :
               Granted(store, {last.role}, R) # Granted(before, {last.role}, R)

(***************************************************************************)
(* C20.  removeAllow(role, resources) with the permissions argument        *)
(* omitted revokes everything the role holds on those resources:           *)
(* afterwards allows(R)[role] is empty and R is not in resources[role] for *)
(* every R of resources, and the grants of other roles and on other        *)
(* resources are unchanged.                                                *)
(***************************************************************************)
C20_AsStated ==
  \A role \in Roles, resources \in ResourceLists :
    LET after == removeAllow(backend, store, role, resources, FALSE, {})
    IN \A r \in Roles, R \in Resources :
         IF r = role /\ R \in resources
         THEN /\ Raw(after, allowsBucket(R), r) = {}
              /\ R \notin Raw(after, buckets.resources, r)
         ELSE /\ Raw(after, allowsBucket(R), r) = Raw(store, allowsBucket(R), r)
              /\ (R \in Raw(after, buckets.resources, r)
                    <=> R \in Raw(store, buckets.resources, r))

(***************************************************************************)
(* C21.  removeUserRoles(u, R) undoes addUserRoles(u, R) on membership:    *)
(* afterwards users[u] is its previous value less R and u is in roles[r]   *)
(* for no r of R; a user left without roles gets false from isAllowed and  *)
(* empty permission lists from allowedPermissions; meta, so meta['users'], *)
(* the memberships of the other users and all grants are unchanged, and    *)
(* the same call repeated changes nothing.                                 *)
(***************************************************************************)
C21_RemoveUserRoles ==
  \A u \in Users, R \in RoleLists :
    LET after == removeUserRoles(backend, store, u, R)
    IN /\ Raw(after, buckets.users, u) = Raw(store, buckets.users, u) \ R
       /\ \A r \in Roles :
            Raw(after, buckets.roles, r) =
              IF r \in R THEN Raw(store, buckets.roles, r) \ {u}
              ELSE Raw(store, buckets.roles, r)
       /\ \A other \in Users \ {u} :
            Raw(after, buckets.users, other) = Raw(store, buckets.users, other)
       /\ \A bucket \in DOMAIN store \ {buckets.users, buckets.roles} :
            after[bucket] = store[bucket]
       /\ removeUserRoles(backend, after, u, R) = after
       /\ Raw(after, buckets.users, u) = {} =>
            /\ \A res \in Resources, P \in PermissionLists :
                 isAllowed(backend, after, u, res, P) = [done |-> TRUE, val |-> FALSE]
            /\ \A rs \in ResourceLists :
                 allowedPermissions(backend, after, u, rs)
                   = [done |-> TRUE, val |-> [res \in rs |-> {}]]

\* removeUserRoles has taken the last role from an enrolled user who held
\* it; another user still holds the role
C21_Witness ==
  /\ last.op = "removeUserRoles"
  /\ last.userId \in Raw(store, buckets.meta, "users")
  /\ Raw(store, buckets.users, last.userId) = {}
  /\ \E other \in Users \ {last.userId}, r \in last.roles :
       /\ other \in Raw(store, buckets.roles, r)
       /\ r \in Raw(store, buckets.users, other)
  /\ \E before \in {addUserRoles(backend, SeededStore(backend), v, rs) :
                      v \in Users, rs \in RoleArgs} :
       /\ store = removeUserRoles(backend, before, last.userId, last.roles)
       /\ Raw(before, buckets.users, last.userId) # {}

\* the role holds a permission on R and the index does not list R for it
Unindexed(s, role, R) ==
  /\ Raw(s, allowsBucket(R), role) # {}
  /\ R \notin Raw(s, buckets.resources, role)

(***************************************************************************)
(* C22.  The index cleanup of removeAllow is not atomic with its subtract. *)
(* The second transaction decides what to drop from resources[role] by     *)
(* reading allows(R)[role] after the first batch has ended, and drops it   *)
(* in a batch that ends later: a state in which allows(R)[role] is         *)
(* non-empty while R is missing from resources[role] arises in exactly one *)
(* way, by the end of that second batch dropping R after an allow on       *)
(* (role, R) has completed since the read.                                 *)
(***************************************************************************)
C22_CleanupNotAtomic ==
  [][/\ (pending.pc = "second" /\ pending'.pc = "end") =>
          /\ store' = store
          /\ pending'.empty =
               {R \in pending.resources :
                  Raw(store, allowsBucket(R), pending.role) = {}}
     /\ \A role \in Roles, R \in Resources :
          (~Unindexed(store, role, R) /\ Unindexed(store', role, R)) =>
            /\ pending.pc = "end"
            /\ pending' = Idle
            /\ pending.role = role
            /\ R \in pending.empty
            /\ Raw(store, allowsBucket(R), role) # {}]_vars

\* removeAllow has completed after an allow ran between its two batches: the
\* role holds a permission on R, is allowed it, and whatResources omits R
C22_Witness ==
  /\ pending = Idle
  /\ last.op = "removeAllow"
  /\ \E R \in last.resources :
       LET ans == whatResources(backend, store, {last.role}, FALSE, {})
           Q == Raw(store, allowsBucket(R), last.role)
       IN /\ Unindexed(store, last.role, R)
          /\ ans.done
          /\ R \notin DOMAIN ans.val
          /\ areAnyRolesAllowed(backend, store, {last.role}, R, Q)
               = [done |-> TRUE, val |-> TRUE]

\* the index lists R for the role, which holds no permission on R
Stale(s, role, R) ==
  /\ R \in Raw(s, buckets.resources, role)
  /\ Raw(s, allowsBucket(R), role) = {}

(***************************************************************************)
(* C23.  On a store that applies the operations of a batch one by one      *)
(* with no isolation, interleaving removeAllow and allow on the same       *)
(* (role, resource) reaches a state with R in resources[role] while        *)
(* allows(R)[role] is empty.  Such a state arises in one way: the store    *)
(* applies the index add of a pending allow, whose permission adds it has  *)
(* applied before, after a removeAllow has emptied allows(R)[role].  No    *)
(* call and no later query reports it: the queries return, and             *)
(* whatResources lists R.                                                  *)
(***************************************************************************)
C23_StaleIndexByInterleaving ==
  /\ [](\A role \in Roles, R \in Resources :
          LET ans == whatResources(backend, store, {role}, FALSE, {})
          IN Stale(store, role, R) =>
               /\ Acyclic(store) => ans.done
               /\ ans.done => R \in DOMAIN ans.val)
  /\ [][\A role \in Roles, R \in Resources :
          (~Stale(store, role, R) /\ Stale(store', role, R)) =>
            /\ ~backend_isolates(backend)
            /\ pending.pc = "applying"
            /\ pending.permissions # {}
            /\ role \in pending.roles
            /\ R \in pending.resources
            /\ \A i \in 1..Len(pending.calls) :
                 pending.calls[i].bucket = buckets.resources]_vars

\* allow has completed with a non-empty permission list and has left a
\* resource in the index of a role that holds nothing on it
C23_Witness ==
  /\ pending = Idle
  /\ last.op = "allow"
  /\ last.permissions # {}
  /\ \E role \in last.roles, R \in last.resources : Stale(store, role, R)

\* the role is gone from meta['roles'], from resources and from parents, and
\* still holds a permission on R
Orphaned(s, role, R) ==
  /\ Raw(s, allowsBucket(R), role) # {}
  /\ Raw(s, buckets.resources, role) = {}
  /\ Raw(s, buckets.parents, role) = {}
  /\ role \notin Raw(s, buckets.meta, "roles")

(***************************************************************************)
(* C24.  removeRole reads resources[role] before it opens its deletion     *)
(* batch, and the batch deletes the allows entries of the resources read.  *)
(* A grant allows(R)[role] that outlives resources[role], parents[role]    *)
(* and the meta['roles'] entry of the role arises in one way: the batch    *)
(* ends for a resource R that was not in resources[role] at the read and   *)
(* that an allow, completed since, has put there.                          *)
(***************************************************************************)
C24_OrphanedGrantByInterleaving ==
  [][/\ (pending = Idle /\ pending'.pc = "batch") =>
          /\ store' = store
          /\ pending'.resources = Raw(store, buckets.resources, pending'.role)
     /\ \A role \in Roles, R \in Resources :
          (~Orphaned(store, role, R) /\ Orphaned(store', role, R)) =>
            /\ pending.pc = "batch"
            /\ pending' = Idle
            /\ pending.role = role
            /\ R \notin pending.resources
            /\ R \in Raw(store, buckets.resources, role)
            /\ Raw(store', allowsBucket(R), role)
                 = Raw(store, allowsBucket(R), role)]_vars

\* removeRole has completed after an allow ran between its read and its
\* batch: the role is gone, its grant is left, and a user who still holds the
\* role is allowed by it
C24_Witness ==
  /\ pending = Idle
  /\ last.op = "removeRole"
  /\ \E R \in Resources, u \in Users :
       /\ Orphaned(store, last.role, R)
       /\ R \notin last.resources
       /\ hasRole(backend, store, u, last.role)
       /\ isAllowed(backend, store, u, R,
                    Raw(store, allowsBucket(R), last.role))
            = [done |-> TRUE, val |-> TRUE]

\* the number of edges of the longest path of the parents graph from the role
\* upwards; the graph is taken to be acyclic
RECURSIVE RoleHeight(_, _)
RoleHeight(s, role) ==
  LET above == {RoleHeight(s, p) : p \in Raw(s, buckets.parents, role)}
  IN IF above = {} THEN 0
     ELSE 1 + CHOOSE h \in above : \A k \in above : k <= h

\* the height of the graph above the starting roles S
Height(s, S) ==
  LET each == {RoleHeight(s, r) : r \in S}
  IN IF each = {} THEN 0 ELSE CHOOSE h \in each : \A k \in each : k <= h

(***************************************************************************)
(* C25.  When the parents graph is acyclic and no mutation interleaves,    *)
(* every query (isAllowed, areAnyRolesAllowed, allowedPermissions in both  *)
(* strategies, whatResources) terminates, and each hierarchy traversal     *)
(* (_allRoles, _resourcePermissions, _checkPermissions) returns within h+1 *)
(* nested levels, h being the height of the graph above the starting       *)
(* roles; _allRoles and _resourcePermissions need all of them.             *)
(***************************************************************************)
C25_TraversalsTerminate ==
  Acyclic(store) =>
    /\ \A S \in RoleLists \ {{}} :
         LET h == Height(store, S)
         IN /\ _allRoles(backend, store, S, h + 1).done
            /\ ~_allRoles(backend, store, S, h).done
            /\ whatResources(backend, store, S, FALSE, {}).done
            /\ whatResources(backend, store, S, TRUE, Permissions).done
            /\ \A R \in Resources :
                 /\ _resourcePermissions(backend, store, S, R, h + 1).done
                 /\ ~_resourcePermissions(backend, store, S, R, h).done
                 /\ \A P \in PermissionLists :
                      /\ _checkPermissions(backend, store, S, R, P, h + 1).done
                      /\ areAnyRolesAllowed(backend, store, S, R, P).done
    /\ \A u \in Users :
         /\ \A R \in Resources, P \in PermissionLists :
              isAllowed(backend, store, u, R, P).done
         /\ \A rs \in ResourceLists :
              /\ allowedPermissions(backend, store, u, rs).done
              /\ backend # "mongodb" =>
                   /\ allowedPermissions("plain", store, u, rs).done
                   /\ optimizedAllowedPermissions("memory", store, u, rs).done

\* allowedPermissions has returned for a user whose roles have two levels of
\* ancestors above them, with a permission granted at the top level only
C25_Witness ==
  /\ result.op = "allowedPermissions"
  /\ Acyclic(store)
  /\ Height(store, Raw(store, buckets.users, result.userId)) = 2
  /\ \E R \in result.resources, top \in Roles :
       /\ RoleHeight(store, top) = 0
       /\ top \notin Raw(store, buckets.users, result.userId)
       /\ Raw(store, allowsBucket(R), top) # {}
       /\ result.ret[R] = Raw(store, allowsBucket(R), top)

\* a depth of recursion no traversal of an acyclic graph over Roles reaches
DeepFuel == HierarchyFuel + HierarchyFuel

\* some role reached from S is its own ancestor
ReachesCycle(s, S) ==
  \E r \in Closure(s, S) : r \in Closure(s, Raw(s, buckets.parents, r))

(***************************************************************************)
(* C26.  Cycles are neither rejected nor detected.  addRoleParents stores  *)
(* the edges it is given even when one closes a cycle, a role being its    *)
(* own parent included; and when the starting roles reach a cycle of       *)
(* parents, _allRoles and _resourcePermissions return at no depth of       *)
(* recursion, so whatResources and allowedPermissions (asked about some    *)
(* resource, in either strategy) do not return and give no partial         *)
(* closure.                                                                *)
(***************************************************************************)
C26_CyclesDiverge ==
  /\ \A role \in Roles, parents \in RoleLists :
       LET after == addRoleParents(backend, store, role, parents)
       IN backend # "mongodb" =>
            /\ Raw(after, buckets.parents, role)
                 = Raw(store, buckets.parents, role) \cup parents
            /\ (role \in Closure(store, parents)) => ~Acyclic(after)
  /\ \A S \in RoleLists \ {{}} :
       ReachesCycle(store, S) =>
         /\ \A fuel \in 0..DeepFuel :
              /\ ~_allRoles(backend, store, S, fuel).done
              /\ \A R \in Resources :
                   ~_resourcePermissions(backend, store, S, R, fuel).done
         /\ ~whatResources(backend, store, S, FALSE, {}).done
         /\ ~whatResources(backend, store, S, TRUE, Permissions).done
  /\ \A u \in Users, rs \in ResourceLists \ {{}} :
       ReachesCycle(store, Raw(store, buckets.users, u)) =>
         /\ ~allowedPermissions(backend, store, u, rs).done
         /\ ~allowedPermissions("plain", store, u, rs).done
         /\ ~optimizedAllowedPermissions("memory", store, u, rs).done

\* addRoleParents has closed a cycle through the role of a user, whose
\* allowedPermissions no longer returns
C26_Witness ==
  /\ last.op = "addRoleParents"
  /\ last.role \in Closure(store, last.parents)
  /\ \E u \in Users :
       /\ last.role \in Closure(store, Raw(store, buckets.users, u))
       /\ ~allowedPermissions(backend, store, u, Resources).done

(***************************************************************************)
(* C29.  end(transaction) executes every operation enqueued on it: once a  *)
(* mutating call has resolved, a get issued afterwards observes each       *)
(* enqueued set-insert (get(users, u) holds the roles of addUserRoles and  *)
(* get(roles, r) the user), each set-subtract (removeUserRoles) and each   *)
(* key-delete (removeRole).                                                *)
(***************************************************************************)
C29_AsStated ==
  /\ last.op = "addUserRoles" =>
       /\ last.roles \subseteq backend_get(backend, store, buckets.users, last.userId)
       /\ \A r \in last.roles :
            last.userId \in backend_get(backend, store, buckets.roles, r)
       /\ last.userId \in backend_get(backend, store, buckets.meta, "users")
  /\ last.op = "removeUserRoles" =>
       /\ backend_get(backend, store, buckets.users, last.userId) \cap last.roles = {}
       /\ \A r \in last.roles :
            last.userId \notin backend_get(backend, store, buckets.roles, r)
  /\ last.op = "removeRole" =>
       /\ backend_get(backend, store, buckets.parents, last.role) = {}
       /\ backend_get(backend, store, buckets.roles, last.role) = {}
       /\ last.role \notin backend_get(backend, store, buckets.meta, "roles")

(***************************************************************************)
(* The backend calls of each mutating method, in the order the method      *)
(* issues them.  A step is a begin(), a read, an enqueue (add, remove,     *)
(* del) or an end(); awaited tells whether the method awaits the promise   *)
(* of the call (directly or through Promise.all) or leaves it to the       *)
(* callback of a forEach, whose promise nobody holds.                      *)
(***************************************************************************)
BeginStep ==
  [kind |-> "begin", awaited |-> TRUE,
   call |-> [op |-> "begin", bucket |-> "", keys |-> {}, values |-> {}]]

EndStep ==
  [kind |-> "end", awaited |-> TRUE,
   call |-> [op |-> "end", bucket |-> "", keys |-> {}, values |-> {}]]

ReadStep(op, bucket, keys) ==
  [kind |-> "read", awaited |-> TRUE,
   call |-> [op |-> op, bucket |-> bucket, keys |-> keys, values |-> {}]]

\* enqueues whose promise the method awaits
Awaited(calls) ==
  [i \in 1..Len(calls) |-> [kind |-> "enqueue", awaited |-> TRUE, call |-> calls[i]]]

\* enqueues made in the async callback of a forEach
Unawaited(calls) ==
  [i \in 1..Len(calls) |-> [kind |-> "enqueue", awaited |-> FALSE, call |-> calls[i]]]

addUserRoles_steps(userId, roles) ==
  LET rs == SetToSeq(roles)
  IN << BeginStep >>
     \o Awaited(<< AddCall(buckets.meta, "users", {userId}),
                   AddCall(buckets.users, userId, roles) >>
                \o [i \in 1..Len(rs) |-> AddCall(buckets.roles, rs[i], {userId})])
     \o << EndStep >>

\* isArray: whether roles was passed as an array; a single role is awaited
removeUserRoles_steps(userId, roles, isArray) ==
  LET rs == SetToSeq(roles)
      inverse == [i \in 1..Len(rs) |-> RemoveCall(buckets.roles, rs[i], {userId})]
  IN << BeginStep >>
     \o Awaited(<< RemoveCall(buckets.users, userId, roles) >>)
     \o (IF isArray THEN Unawaited(inverse) ELSE Awaited(inverse))
     \o << EndStep >>

addRoleParents_steps(role, parents) ==
  << BeginStep >>
  \o Awaited(<< AddCall(buckets.meta, "roles", {role}),
                AddCall(buckets.parents, role, parents) >>)
  \o << EndStep >>

removeRoleParents_steps(role, given, parents) ==
  << BeginStep >>
  \o Awaited(IF given THEN << RemoveCall(buckets.parents, role, parents) >>
             ELSE << DelCall(buckets.parents, {role}) >>)
  \o << EndStep >>

removeRole_steps(b, s, role) ==
  LET rs == SetToSeq(backend_get(b, s, buckets.resources, role))
  IN << ReadStep("get", buckets.resources, {role}), BeginStep >>
     \o Unawaited([i \in 1..Len(rs) |-> DelCall(allowsBucket(rs[i]), {role})])
     \o Awaited(<< DelCall(buckets.resources, {role}),
                   DelCall(buckets.parents, {role}),
                   DelCall(buckets.roles, {role}),
                   RemoveCall(buckets.meta, "roles", {role}) >>)
     \o << EndStep >>

removeResource_steps(b, s, resource) ==
  LET roles == backend_get(b, s, buckets.meta, "roles")
      rs == SetToSeq(roles)
  IN << ReadStep("get", buckets.meta, {"roles"}), BeginStep >>
     \o Awaited(<< DelCall(allowsBucket(resource), roles) >>)
     \o Unawaited([i \in 1..Len(rs) |->
                    RemoveCall(buckets.resources, rs[i], {resource})])
     \o << EndStep >>

\* the add to meta is awaited, the adds of the two forEach loops are not
allow_steps(roles, resources, permissions) ==
  LET calls == allow_batch(roles, resources, permissions)
  IN << BeginStep >>
     \o Awaited(<< Head(calls) >>) \o Unawaited(Tail(calls))
     \o << EndStep >>

\* removePermissions whose second transaction reads one resource and queues
\* its removal before it reads the next
removePermissions_steps_readPerResource(b, s, role, resources, given, permissions) ==
  LET res == SetToSeq(resources)
      s1 == removePermissions_first(b, s, role, resources, given, permissions)
      empty == removePermissions_second_read(b, s1, role, resources)
  IN << BeginStep >>
     \o Unawaited([i \in 1..Len(res) |->
           IF given THEN RemoveCall(allowsBucket(res[i]), role, permissions)
           ELSE DelCall(allowsBucket(res[i]), {role})])
     \o << EndStep, BeginStep >>
     \o Flatten([i \in 1..Len(res) |->
           << ReadStep("get", allowsBucket(res[i]), {role}) >>
           \o (IF res[i] \in empty
               THEN Awaited(<< RemoveCall(buckets.resources, role, {res[i]}) >>)
               ELSE << >>)])
     \o << EndStep >>

\* The callbacks of the first forEach are not awaited; with permissions
\* falsy each pushes its removal from resources[role] onto the first
\* transaction only after end() was called on it.  The second transaction
\* is opened first, map then issues the get of every resource, and the
\* removals are queued as the reads resolve; Promise.all awaits them all.
removePermissions_steps(b, s, role, resources, given, permissions) ==
  LET res == SetToSeq(resources)
      s1 == removePermissions_first(b, s, role, resources, given, permissions)
      empty == SetToSeq(removePermissions_second_read(b, s1, role, resources))
  IN << BeginStep >>
     \o Unawaited([i \in 1..Len(res) |->
           IF given THEN RemoveCall(allowsBucket(res[i]), role, permissions)
           ELSE DelCall(allowsBucket(res[i]), {role})])
     \o << EndStep >>
     \o (IF given THEN << >>
         ELSE Unawaited([i \in 1..Len(res) |->
                RemoveCall(buckets.resources, role, {res[i]})]))
     \o << BeginStep >>
     \o [i \in 1..Len(res) |-> ReadStep("get", allowsBucket(res[i]), {role})]
     \o Awaited([i \in 1..Len(empty) |->
           RemoveCall(buckets.resources, role, {empty[i]})])
     \o << EndStep >>

removeAllow_steps(b, s, role, resources, given, permissions) ==
  removePermissions_steps(b, s, role, resources, TRUE,
    IF given THEN permissions ELSE {UNDEF})

\* the store after the steps: begin() opens an empty transaction, an enqueue
\* appends to it, end() hands it to the backend; queued is the open one
RECURSIVE RunSteps(_, _, _, _)
RunSteps(b, s, steps, queued) ==
  IF steps = << >> THEN s
  ELSE LET st == Head(steps)
       IN CASE st.kind = "begin" -> RunSteps(b, s, Tail(steps), << >>)
            [] st.kind = "enqueue" ->
                 RunSteps(b, s, Tail(steps), Append(queued, st.call))
            [] st.kind = "end" ->
                 RunSteps(b, Batch(b, s, queued), Tail(steps), << >>)
            [] OTHER -> RunSteps(b, s, Tail(steps), queued)

\* the calls of every mutating method other than removeAllow, over the
\* arguments of the model
SingleBatchSteps(b, s) ==
  {addUserRoles_steps(u, rs) : u \in Users, rs \in RoleArgs}
    \cup {removeUserRoles_steps(u, rs, isArray) :
            u \in Users, rs \in RoleArgs, isArray \in BOOLEAN}
    \cup {addRoleParents_steps(r, ps) : r \in Roles, ps \in ParentArgs}
    \cup {removeRoleParents_steps(r, given, ps) :
            r \in Roles, given \in BOOLEAN, ps \in RemoveParentArgs}
    \cup {removeRole_steps(b, s, r) : r \in Roles}
    \cup {removeResource_steps(b, s, R) : R \in Resources}
    \cup {allow_steps(rs, res, ps) :
            rs \in RoleArgs, res \in ResourceArgs, ps \in PermissionArgs}

RemoveAllowSteps(b, s) ==
  {removeAllow_steps(b, s, r, res, given, ps) :
     r \in Roles, res \in ResourceArgs, given \in BOOLEAN,
     ps \in RemovePermissionArgs}

PublicSteps(b, s) == SingleBatchSteps(b, s) \cup RemoveAllowSteps(b, s)

\* step i comes after a begin() whose end() has not been issued yet
InsideBatch(steps, i) ==
  \E j \in 1..(i - 1) :
    /\ steps[j].kind = "begin"
    /\ \A k \in (j + 1)..(i - 1) : steps[k].kind # "end"

ReadsInsideBatch(steps) ==
  {i \in 1..Len(steps) : steps[i].kind = "read" /\ InsideBatch(steps, i)}

\* the reads issued after an operation was queued on the open transaction
ReadsAfterEnqueue(steps) ==
  {i \in 1..Len(steps) :
     /\ steps[i].kind = "read"
     /\ \E j \in 1..(i - 1) :
          /\ steps[j].kind = "begin"
          /\ \A k \in (j + 1)..(i - 1) : steps[k].kind # "end"
          /\ \E k \in (j + 1)..(i - 1) : steps[k].kind = "enqueue"}

\* the position of the first end() of the steps
FirstEnd(steps) ==
  CHOOSE i \in 1..Len(steps) :
    steps[i].kind = "end" /\ \A k \in 1..(i - 1) : steps[k].kind # "end"

(***************************************************************************)
(* C30 as stated.  In every public operation no store read is issued       *)
(* between a begin() and the end() of the transaction it opened.           *)
(***************************************************************************)
C30_AsStated ==
  \A steps \in PublicSteps(backend, store) : ReadsInsideBatch(steps) = {}

(***************************************************************************)
(* C30.  No read of a public operation follows an enqueue on a             *)
(* transaction that is still open, so no read needs to see a queued        *)
(* write.  Every mutating method but removeAllow issues all its reads      *)
(* before its begin(): removeRole and removeResource start with their get. *)
(* removeAllow reads inside its second transaction: after the end() of     *)
(* the first and the begin() of the second it issues one get per resource, *)
(* on allows(resource)[role], before it queues anything on the second.     *)
(***************************************************************************)
C30_ReadsBeforeEnqueues ==
  /\ \A steps \in PublicSteps(backend, store) : ReadsAfterEnqueue(steps) = {}
  /\ \A steps \in SingleBatchSteps(backend, store) : ReadsInsideBatch(steps) = {}
  /\ \A r \in Roles : removeRole_steps(backend, store, r)[1].kind = "read"
  /\ \A R \in Resources : removeResource_steps(backend, store, R)[1].kind = "read"
  /\ \A r \in Roles, res \in ResourceArgs, given \in BOOLEAN,
        ps \in RemovePermissionArgs :
       LET steps == removeAllow_steps(backend, store, r, res, given, ps)
           reads == {i \in 1..Len(steps) : steps[i].kind = "read"}
       IN /\ ReadsInsideBatch(steps) = reads
          /\ {steps[i].call : i \in reads}
               = {[op |-> "get", bucket |-> allowsBucket(R), keys |-> {r},
                   values |-> {}] : R \in res}
          /\ \A i \in reads : i > FirstEnd(steps)

\* a removeAllow in flight has made the gets of its second transaction,
\* which found the role without rights on one resource and with rights on
\* another, and has not yet called end() on it
C30_Witness ==
  /\ pending.pc = "end"
  /\ pending.op = "removeAllow"
  /\ pending.empty # {}
  /\ pending.resources \ pending.empty # {}

(***************************************************************************)
(* Failures of backend calls.  F is the set of positions of the steps      *)
(* whose backend call fails (its promise rejects).                         *)
(***************************************************************************)
\* add throws on the key 'key', before it pushes anything; the values are
\* not looked at, and remove and del have no such test
MongoDBBackend_add_throws(c) == c.op = "add" /\ "key" \in c.keys

\* the contract of the Bucket Store names no argument an enqueue refuses
backend_enqueue_throws(b, c) == b = "mongodb" /\ MongoDBBackend_add_throws(c)

Throwing(b, steps) ==
  {i \in 1..Len(steps) :
     steps[i].kind = "enqueue" /\ backend_enqueue_throws(b, steps[i].call)}

\* the first failing step the method awaits: the await throws there and the
\* async method returns a rejected promise; 0 if it awaits no failing step
FirstAwaitedFailure(steps, F) ==
  LET A == {i \in F : steps[i].awaited}
  IN IF A = {} THEN 0 ELSE CHOOSE i \in A : \A j \in A : i <= j

\* the steps up to there that are made and do not fail
StepsTaken(steps, F) ==
  LET stop == FirstAwaitedFailure(steps, F)
      n == IF stop = 0 THEN Len(steps) ELSE stop - 1
  IN SelectSeq([i \in 1..n |-> [at |-> i, step |-> steps[i]]],
               LAMBDA x : x.at \notin F)

\* how the call of the method can come out.  A rejection inside a forEach
\* callback reaches nobody: the method goes on and resolves, and the runtime
\* either reports the unhandled rejection or ends the process on it.
Outcomes(steps, F) ==
  LET stop == FirstAwaitedFailure(steps, F)
  IN (IF stop = 0 THEN {"resolved"} ELSE {"rejected"})
       \cup (IF \E i \in F : ~steps[i].awaited /\ (stop = 0 \/ i < stop)
             THEN {"crashed"} ELSE {})

\* the store after a call whose steps at F fail
RunFailing(b, s, steps, F) ==
  LET taken == StepsTaken(steps, F)
  IN RunSteps(b, s, [i \in 1..Len(taken) |-> taken[i].step], << >>)

\* the steps that can fail: reads, enqueues and end()
Failable(steps) ==
  {i \in 1..Len(steps) : steps[i].kind \in {"read", "enqueue", "end"}}

(***************************************************************************)
(* C27 as stated.  Whenever a read, an enqueue or an end() issued by a     *)
(* public operation fails, the operation fails instead of resolving; in    *)
(* removeAllow a failure of the end() of phase 1 means phase 2 is not run. *)
(***************************************************************************)
C27_AsStated ==
  /\ \A steps \in PublicSteps(backend, store) :
       \A f \in Failable(steps) : Outcomes(steps, {f}) = {"rejected"}
  /\ \A steps \in RemoveAllowSteps(backend, store) :
       LET f == FirstEnd(steps)
       IN \A x \in {StepsTaken(steps, {f})[i] :
                      i \in 1..Len(StepsTaken(steps, {f}))} : x.at < f

\* the mutating calls that use the reserved name 'key' as data: as a granted
\* permission, as a role of allow, as the user id or a role of addUserRoles,
\* as the child role of addRoleParents
ReservedName == "key"

ReservedSteps ==
  {allow_steps(rs, res, {ReservedName}) : rs \in RoleArgs, res \in ResourceArgs}
    \cup {allow_steps({ReservedName}, res, ps) :
            res \in ResourceArgs, ps \in PermissionArgs}
    \cup {addUserRoles_steps(ReservedName, rs) : rs \in RoleArgs}
    \cup {addUserRoles_steps(u, {ReservedName}) : u \in Users}
    \cup {addRoleParents_steps(ReservedName, ps) : ps \in ParentArgs}

(***************************************************************************)
(* C28 as stated.  A mutating call that uses the reserved name 'key' as a  *)
(* granted permission, or as the role or user id that becomes a bucket     *)
(* key, is rejected before any store operation is executed: the call       *)
(* fails, no end() is reached and the store is unchanged.                  *)
(***************************************************************************)
C28_AsStated ==
  \A steps \in ReservedSteps :
    LET F == Throwing(backend, steps)
        taken == StepsTaken(steps, F)
    IN /\ Outcomes(steps, F) = {"rejected"}
       /\ \A i \in 1..Len(taken) : taken[i].step.kind # "end"
       /\ RunFailing(backend, store, steps, F) = store

(***************************************************************************)
(* The compact form of allow.  _allowEx flattens its objects into triples  *)
(* and hands them to reduce with an async callback: reduce calls the       *)
(* callback for every triple at once, without awaiting the promise the     *)
(* previous call returned, and gives back the promise of the last call.    *)
(* So every allow is started, and _allowEx awaits the last one only.       *)
(***************************************************************************)
\* the pairs of resources and permissions of the compact form in the model
AllowsArgs ==
  { [resources |-> {"R"}, permissions |-> {"p"}],
    [resources |-> {"S"}, permissions |-> {"*"}],
    [resources |-> {"R", "S"}, permissions |-> {"q"}] }

\* the objects of the compact form: one object, two entries of allows
AllowExArgs ==
  { << [roles |-> rs, allows |-> << a1, a2 >>] >> :
      rs \in RoleArgs, a1 \in AllowsArgs, a2 \in AllowsArgs }

_allowEx_demuxed(objs) ==
  Flatten([i \in 1..Len(objs) |->
    [j \in 1..Len(objs[i].allows) |->
       [roles |-> objs[i].roles,
        resources |-> objs[i].allows[j].resources,
        permissions |-> objs[i].allows[j].permissions]]])

\* the store after the triples have been granted one after another
RECURSIVE allowEach(_, _, _)
allowEach(b, s, demuxed) ==
  IF demuxed = << >> THEN s
  ELSE allowEach(b,
         allow(b, s, Head(demuxed).roles, Head(demuxed).resources,
               Head(demuxed).permissions),
         Tail(demuxed))

\* whether the end() of calls started one after another resolve in the order
\* the calls were started.  MongoDBBackend.end and the memory backend do no
\* input or output, so calls of the same shape advance in step; a store that
\* makes a round trip in end() answers in any order.
backend_endsInOrder(b) == b = "mongodb" \/ backend_isolates(b)

\* _allowEx up to the await of reduce: every allow has been started
AllowEx_begin ==
  \E objs \in AllowExArgs :
    /\ pending = Idle
    /\ nops < MaxOps
    /\ result = NoResult
    /\ nops' = nops + 1
    /\ pending' = [pc |-> "allowEx", op |-> "allow",
                   demuxed |-> _allowEx_demuxed(objs),
                   todo |-> 1..Len(_allowEx_demuxed(objs)),
                   resolved |-> FALSE]
    /\ UNCHANGED <<backend, store, last, result>>

\* the end() of one of the started allow calls completes; _allowEx resolves
\* when that of the last triple does
AllowEx_end ==
  /\ pending.pc = "allowEx"
  /\ \E i \in pending.todo :
       /\ backend_endsInOrder(backend) => \A j \in pending.todo : i <= j
       /\ store' = allow(backend, store, pending.demuxed[i].roles,
                         pending.demuxed[i].resources,
                         pending.demuxed[i].permissions)
       /\ LET resolved == pending.resolved \/ i = Len(pending.demuxed)
          IN /\ pending' = IF pending.todo = {i} THEN Idle
                           ELSE [pending EXCEPT !.todo = pending.todo \ {i},
                                                !.resolved = resolved]
             /\ last' = IF i = Len(pending.demuxed)
                        THEN [op |-> "allowEx", demuxed |-> pending.demuxed]
                        ELSE last
  /\ UNCHANGED <<backend, nops, result>>

\* the compact form of allow
AllowExCalls ==
  \/ AllowEx_begin
  \/ AllowEx_end

SpecAllowEx == Init /\ [][AllowExCalls]_vars

(***************************************************************************)
(* C31 as stated.  The compact form of allow resolves only after every     *)
(* triple it contains has been granted through a completed end(): once it  *)
(* has resolved no allow it started is still under way, the store holds    *)
(* every grant, and isAllowed sees them for every user holding one of the  *)
(* roles.                                                                  *)
(***************************************************************************)
C31_AsStated ==
  /\ (pending.pc = "allowEx" /\ pending.resolved) => pending.todo = {}
  /\ last.op = "allowEx" /\ backend # "mongodb" =>
       \A i \in 1..Len(last.demuxed) :
         LET t == last.demuxed[i]
         IN \A r \in t.roles, R \in t.resources :
              /\ t.permissions \subseteq Raw(store, allowsBucket(R), r)
              /\ \A u \in Users :
                   r \in Raw(store, buckets.users, u) /\ Acyclic(store) =>
                     isAllowed(backend, store, u, R, t.permissions).val

\* the granted permissions cover the asked ones
Covers(granted, permissions) == "*" \in granted \/ permissions \subseteq granted

addUserRoles_number(b, s, n, roles) == addUserRoles(b, s, String(n), roles)

userRoles_number(b, s, n) == userRoles(b, s, String(n))

hasRole_number(b, s, n, rolename) == hasRole(b, s, String(n), rolename)

isAllowed_number(b, s, n, resource, permissions) ==
  isAllowed(b, s, String(n), resource, permissions)

\* !userId is true of the number 0
allowedPermissions_number(b, s, n, resources) ==
  IF n = 0 THEN [done |-> TRUE, val |-> EmptyMap]
  ELSE allowedPermissions(b, s, String(n), resources)

AddUserRoles_number ==
  \E n \in NumericIds, roles \in RoleArgs :
    /\ nops < MaxOps
    /\ result = NoResult
    /\ store' = addUserRoles_number(backend, store, n, roles)
    /\ nops' = nops + 1
    /\ last' = [op |-> "addUserRoles", userId |-> String(n), roles |-> roles]
    /\ UNCHANGED <<backend, result, pending>>

\* users with numeric ids, and grants
NumericIdCalls ==
  \/ AddUserRoles_number
  \/ Allow

SpecNumericIds == Init /\ [][NumericIdCalls]_vars

(***************************************************************************)
(* C33 as stated.  A numeric user id denotes the same user as its string   *)
(* form, 0 included: userRoles, hasRole, isAllowed and allowedPermissions  *)
(* give the same result for n and for String(n), and allowedPermissions    *)
(* of user 0 gives the mapping it gives for any other user holding the     *)
(* same roles.                                                             *)
(***************************************************************************)
C33_AsStated ==
  \A n \in NumericIds :
    /\ userRoles_number(backend, store, n) = userRoles(backend, store, String(n))
    /\ \A r \in Roles :
         hasRole_number(backend, store, n, r) = hasRole(backend, store, String(n), r)
    /\ \A R \in Resources, P \in PermissionArgs :
         isAllowed_number(backend, store, n, R, P)
           = isAllowed(backend, store, String(n), R, P)
    /\ \A rs \in ResourceLists :
         /\ allowedPermissions_number(backend, store, n, rs)
              = allowedPermissions(backend, store, String(n), rs)
         /\ \A u \in Users \cup {String(m) : m \in NumericIds} :
              userRoles(backend, store, u) = userRoles_number(backend, store, n) =>
                allowedPermissions(backend, store, u, rs)
                  = allowedPermissions_number(backend, store, n, rs)

\* every query, after calls that give users roles and roles permissions
QueryCalls ==
  \/ AddUserRoles
  \/ Allow
  \/ Queries
  \/ Continue

SpecQueries == Init /\ [][QueryCalls]_vars

\* the operations of the store that read
ReadOps == {"get", "union", "unions"}

(***************************************************************************)
(* C34.  Queries are read-only.  A step in which userRoles, roleUsers,     *)
(* hasRole, isAllowed (with areAnyRolesAllowed), allowedPermissions or     *)
(* whatResources returns leaves every bucket as it was and opens no batch; *)
(* and every store call that isAllowed and allowedPermissions, in either   *)
(* strategy, issue is a get, a union or a unions.                          *)
(***************************************************************************)
C34_QueriesReadOnly ==
  /\ [][result' # NoResult =>
          /\ store' = store
          /\ pending' = pending
          /\ nops' = nops /\ last' = last]_vars
  /\ [](\A u \in Users, R \in Resources, P \in QueryPermissionArgs :
          /\ \A c \in isAllowed_calls(backend, store, u, R, P) : c.op \in ReadOps
          /\ \A c \in allowedPermissions_calls(backend, store, u, {R})
                        \cup allowedPermissions_calls("plain", store, u, {R}) :
               c.op \in ReadOps)

\* allowedPermissions has returned permissions of the user, from a store
\* that holds the user's roles and their grants
C34_Witness ==
  /\ result.op = "allowedPermissions"
  /\ \E R \in DOMAIN result.ret : result.ret[R] # {}
  /\ Raw(store, buckets.users, result.userId) # {}
  /\ \E R \in Resources, r \in Roles : Raw(store, allowsBucket(R), r) # {}

(***************************************************************************)
(* C35.  An empty permission list is satisfied exactly by the users that   *)
(* have a role: isAllowed(u, R, []) returns, whatever the parents graph,   *)
(* and it returns true for every resource R, one without any grant         *)
(* included, when users[u] is not empty, and false when users[u] is empty. *)
(***************************************************************************)
C35_EmptyPermissionList ==
  \A u \in Users, R \in Resources :
    LET ans == isAllowed(backend, store, u, R, {})
    IN /\ ans.done
       /\ ans.val <=> userRoles(backend, store, u) # {}

\* addUserRoles has given a role to a user who is allowed the empty list on
\* a resource nobody holds a permission on, next to a user without roles
C35_Witness ==
  /\ last.op = "addUserRoles"
  /\ \E R \in Resources :
       /\ \A k \in KeyNames : Raw(store, allowsBucket(R), k) = {}
       /\ isAllowed(backend, store, last.userId, R, {}).val
       /\ \E u \in Users :
            /\ Raw(store, buckets.users, u) = {}
            /\ ~isAllowed(backend, store, u, R, {}).val

\* users given roles, grants made and revoked
WildcardCalls ==
  \/ AddUserRoles
  \/ Allow
  \/ RemoveAllow

SpecWildcard == Init /\ [][WildcardCalls]_vars

\* the lists of named permissions, '*' not among them
NamedPermissionLists == (SUBSET (Permissions \ {"*"})) \ {{}}

\* no role that holds '*' on a resource in the first store has lost it in
\* the second, but perhaps the role x on the resource R
WildcardsKept(s, after, x, R) ==
  \A y \in Roles, R2 \in Resources :
    "*" \in Raw(s, allowsBucket(R2), y) /\ "*" \notin Raw(after, allowsBucket(R2), y)
      => y = x /\ R2 = R

\* a role and a resource that are none
None == "<none>"

Relevant(bucket, key, u, R) ==
  \/ bucket = buckets.users /\ key = u
  \/ bucket = buckets.parents
  \/ bucket = allowsBucket(R)

\* the store with everything else emptied
Scrubbed(s, u, R) ==
  [bucket \in DOMAIN s |-> [key \in DOMAIN s[bucket] |->
     IF Relevant(bucket, key, u, R) THEN s[bucket][key] ELSE {}]]

\* the store with everything else filled with every name
Stuffed(s, u, R) ==
  [bucket \in DOMAIN s |-> [key \in DOMAIN s[bucket] |->
     IF Relevant(bucket, key, u, R) THEN s[bucket][key]
     ELSE Roles \cup Resources \cup Permissions]]

(***************************************************************************)
(* C37.  The answer of isAllowed(u, R, P), and whether it answers at all,  *)
(* depends only on users[u], the parents bucket and the allows(R) bucket:  *)
(* the call gives the same on the store, on the store with every other     *)
(* entry emptied and on the store with every other entry filled (meta,     *)
(* roles, the resources index, the allows buckets of other resources, the  *)
(* roles of other users).  Two stores that agree on the three are emptied  *)
(* to the same store, so they give the same answer.                        *)
(***************************************************************************)
C37_IsAllowedDependsOn ==
  \A u \in Users, R \in Resources, P \in PermissionLists :
    LET ans == isAllowed(backend, store, u, R, P)
    IN /\ isAllowed(backend, Scrubbed(store, u, R), u, R, P) = ans
       /\ isAllowed(backend, Stuffed(store, u, R), u, R, P) = ans

\* a user is allowed a permission on a resource; with the index of the
\* user's roles emptied whatResources no longer lists the resource and
\* isAllowed answers as before
C37_Witness ==
  \E u \in Users, R \in Resources, p \in Permissions :
    LET roles == Raw(store, buckets.users, u)
        scrubbed == Scrubbed(store, u, R)
    IN /\ roles # {}
       /\ isAllowed(backend, store, u, R, {p}).val
       /\ isAllowed(backend, scrubbed, u, R, {p}).val
       /\ whatResources(backend, store, roles, FALSE, {}).done
       /\ R \in DOMAIN whatResources(backend, store, roles, FALSE, {}).val
       /\ R \notin DOMAIN whatResources(backend, scrubbed, roles, FALSE, {}).val

\* the users that hold the role or a child of it
UsersThrough(s, r) ==
  {u \in Users :
     \E c \in Raw(s, buckets.users, u) : c = r \/ r \in Raw(s, buckets.parents, c)}

(***************************************************************************)
(* C38.  References to a removed role survive and come back to life.       *)
(* removeRole(r) leaves r in users[u] of every user that held it and in    *)
(* parents[c] of every other role c that had it as a parent; and after a   *)
(* later allow(r, R, P), with no addUserRoles and no addRoleParents in     *)
(* between, isAllowed(u, R, P) returns true for every user that held r or  *)
(* a child of r.                                                           *)
(***************************************************************************)
C38_RemovedRoleReactivates ==
  \A r \in Roles :
    LET removed == removeRole(backend, store, r)
    IN /\ \A u \in Users :
            r \in Raw(store, buckets.users, u) => r \in Raw(removed, buckets.users, u)
       /\ \A c \in Roles \ {r} :
            r \in Raw(store, buckets.parents, c)
              => r \in Raw(removed, buckets.parents, c)
       /\ \A R \in Resources, P \in PermissionArgs :
            LET again == allow(backend, removed, {r}, {R}, P)
            IN \A u \in UsersThrough(store, r) :
                 isAllowed(backend, again, u, R, P) = [done |-> TRUE, val |-> TRUE]

\* a role was removed while a user held it: the user still holds it, the
\* role no longer lists the user, and the allow that followed has made the
\* user allowed
C38_Witness ==
  /\ last.op = "allow"
  /\ last.permissions # {}
  /\ \E r \in last.roles, u \in Users, R \in last.resources :
       /\ r \in Raw(store, buckets.users, u)
       /\ u \notin Raw(store, buckets.roles, r)
       /\ \E c \in Roles \ {r} : r \in Raw(store, buckets.parents, c)
       /\ isAllowed(backend, store, u, R, last.permissions).val

(***************************************************************************)
(* removeResource in its two round trips, sharing the store with allow.    *)
(***************************************************************************)
\* removeResource that opens its batch without reading meta['roles']
RemoveResource_read_nothing ==
  \E resource \in Resources :
    /\ pending = Idle
    /\ nops < MaxOps
    /\ result = NoResult
    /\ nops' = nops + 1
    /\ pending' = [pc |-> "resourceBatch", op |-> "removeResource",
                   resource |-> resource, roles |-> {}]
    /\ UNCHANGED <<backend, store, last, result>>

\* removeResource up to its get of meta['roles']
RemoveResource_read ==
  \E resource \in Resources :
    /\ pending = Idle
    /\ nops < MaxOps
    /\ result = NoResult
    /\ nops' = nops + 1
    /\ pending' = [pc |-> "resourceBatch", op |-> "removeResource",
                   resource |-> resource,
                   roles |-> backend_get(backend, store, buckets.meta, "roles")]
    /\ UNCHANGED <<backend, store, last, result>>

\* removeResource, its batch over the roles it has read
RemoveResource_end ==
  /\ pending.pc = "resourceBatch"
  /\ store' = removeResource_batch(backend, store, pending.resource, pending.roles)
  /\ last' = [op |-> "removeResource", resource |-> pending.resource,
              roles |-> pending.roles]
  /\ pending' = Idle
  /\ UNCHANGED <<backend, nops, result>>

RemoveResourceRace ==
  \/ RemoveResource_read
  \/ RemoveResource_end
  \/ Allow

SpecRemoveResourceRace == Init /\ [][RemoveResourceRace]_vars

(***************************************************************************)
(* C39.  removeResource reads meta['roles'] before it opens its batch, and *)
(* the batch deletes allows(R) and the index entry of the roles read.  A   *)
(* grant on R is left when removeResource(R) resolves in one way: it       *)
(* belongs to a role that was not in meta['roles'] at the read and that an *)
(* allow, completed since, has registered and granted; allows(R)[r] is     *)
(* then as the allow left it and R is still in resources[r].               *)
(***************************************************************************)
C39_GrantSurvivesRemoveResource ==
  [][/\ (pending = Idle /\ pending'.pc = "resourceBatch") =>
          /\ store' = store
          /\ pending'.roles = Raw(store, buckets.meta, "roles")
     /\ (pending.pc = "resourceBatch" /\ pending' = Idle) =>
          \A r \in Roles :
            LET R == pending.resource
            IN Raw(store', allowsBucket(R), r) # {} =>
                 /\ r \notin pending.roles
                 /\ r \in Raw(store, buckets.meta, "roles")
                 /\ Raw(store', allowsBucket(R), r) = Raw(store, allowsBucket(R), r)
                 /\ R \in Raw(store', buckets.resources, r)]_vars

\* removeResource has resolved after an allow for a role that was not
\* registered at its read: the role still holds the permissions on the
\* resource, the resource is still in its index, and a user of the role is
\* allowed
C39_Witness ==
  /\ pending = Idle
  /\ last.op = "removeResource"
  /\ \E r \in Roles \ last.roles :
       /\ Raw(store, allowsBucket(last.resource), r) # {}
       /\ last.resource \in Raw(store, buckets.resources, r)
       /\ \E u \in Users :
            /\ r \in Raw(store, buckets.users, u)
            /\ isAllowed(backend, store, u, last.resource,
                         Raw(store, allowsBucket(last.resource), r)).val

\* the hierarchy being closed into cycles under a store that already holds
\* a grant: role a holds p on R, c is a child of b and b a child of a
GrantedStore(b) == allow(b, SeededStore(b), {"a"}, {"R"}, {"p"})

InitCycles ==
  /\ backend \in Backends
  /\ store \in {SeededStore(backend), GrantedStore(backend)}
  /\ nops = 0
  /\ last = [op |-> "new"]
  /\ result = NoResult
  /\ pending = Idle

CycleCalls ==
  \/ AddUserRoles
  \/ AddRoleParents
  \/ Allow

SpecCycles == InitCycles /\ [][CycleCalls]_vars

(***************************************************************************)
(* C40.  On a hierarchy with a cycle that the roles of the user reach, the *)
(* permission checker never answers false.  The parents of a set of roles  *)
(* that reaches a cycle are not empty and reach the cycle too, so the      *)
(* checker never finds the top.  isAllowed returns true when the grants of *)
(* the roles and their ancestors on the resource hold '*' or every asked   *)
(* permission, and otherwise does not return, at any depth of recursion.   *)
(***************************************************************************)
C40_NeverFalseOnCycle ==
  /\ \A S \in RoleLists :
       ReachesCycle(store, S) =>
         /\ _rolesParents(backend, store, S) # {}
         /\ ReachesCycle(store, _rolesParents(backend, store, S))
  /\ \A u \in Users, R \in Resources, P \in PermissionLists :
       LET roles == userRoles(backend, store, u)
           ans == isAllowed(backend, store, u, R, P)
       IN ReachesCycle(store, roles) =>
            /\ ans.done => ans.val
            /\ ans.done <=> Covers(Granted(store, roles, R), P)
            /\ ~ans.done =>
                 \A fuel \in 0..DeepFuel :
                   ~_checkPermissions(backend, store, roles, R, P, fuel).done

\* the role of a user is on a cycle of parents; one permission, granted to
\* another role of the cycle, is allowed, and for another permission
\* isAllowed does not return
C40_Witness ==
  \E u \in Users, R \in Resources, p \in Permissions, q \in Permissions :
    LET roles == Raw(store, buckets.users, u)
    IN /\ ReachesCycle(store, roles)
       /\ p \notin UNION {Raw(store, allowsBucket(R), r) : r \in roles}
       /\ isAllowed(backend, store, u, R, {p}) = [done |-> TRUE, val |-> TRUE]
       /\ ~isAllowed(backend, store, u, R, {q}).done

====
